---- MODULE Spec2Model ----
(***************************************************************************)
(* State-machine model of the statistical core of the safety telemetry     *)
(* platform: the rare-event resampler/evaluator (ImportanceSampling in     *)
(* models/importance_sampling.py) and the fit lifecycle of SurvivalModel   *)
(* and ChangepointModel.                                                   *)
(*                                                                         *)
(* Floating-point values are modelled as extended rationals <<n, d>>:      *)
(* d > 0 is the rational n/d in lowest terms, <<1,0>> is +inf, <<-1,0>> is *)
(* -inf and <<0,0>> is NaN, with numpy's float64 rules for division by     *)
(* zero (x/0 = +-inf, 0/0 = NaN, a warning and no exception).  Rounding is *)
(* not modelled: equalities between weights are equalities of reals.       *)
(***************************************************************************)
EXTENDS Integers, Sequences, FiniteSets, TLC

VARIABLES
    rare_event_rate,     \* ImportanceSampling.rare_event_rate
    reweighting_model,   \* ImportanceSampling.reweighting_model
    call,                \* the sampler operation performed last, with its arguments
    ret,                 \* what that operation returned or raised
    df_train,            \* run_experiment: training split
    df_test,             \* run_experiment: held-out test split
    pc,                  \* run_experiment: position in the experiment
    aux_fit_on,          \* the rows evaluate passed to fit_reweighting_model
    detector_fit_on,     \* the set of rows of df_resampled, which
                         \* detection_model was last fitted on
    results,             \* evaluate_detection_performance: results
    experiment,          \* run_experiment: the returned results frame
    survival,            \* a SurvivalModel object: its model and idata
    changepoint,         \* a ChangepointModel object: its model and idata
    files,               \* the result files on disk, by output path
    model_call,          \* the operation performed last on one of the two objects
    model_ret,           \* the error it raised, "" when it returned
    model_data,          \* the data passed to it (build_model, fit, save_results)
    posterior_tau,       \* ChangepointModel: the draws of idata.posterior['tau']
    detect_args,         \* detect_changepoint: the series and threshold passed
    detection,           \* detect_changepoint: what it returned or raised
    prep_args,           \* prepare_data: the model family, frame and columns passed
    prepared,            \* prepare_data: what it returned or raised
    clock,               \* datetime.utcnow(), in whole seconds
    diagnostics,         \* az.summary of each fitted model: its largest r_hat
    experiment_results,  \* what run_experiment returned last
    tables,              \* the rows of the result file at each output path
    invocations,         \* how many save_results / run_experiment calls were made
    train_columns,       \* evaluate_detection_performance: df_train.columns
    feature_cols,        \* evaluate_detection_performance: the feature_cols passed
    model_columns,       \* the columns reweighting_model was fitted on
    proba_columns,       \* the columns last handed to predict_proba
    method_idx,          \* the position of the loop over methods
    eval_error,          \* the exception that ended the evaluation, "" if none
    task_state,          \* the state of each task instance of the DAG run
    try_number,          \* how often each task instance was started
    cp_csv,              \* results/changepoint_<date>.csv, by execution date
    alerts_csv,          \* alerts/alerts_<date>.csv, by execution date
    alerts_returned,     \* the execution dates for which generate_alerts returned
    input_dir,           \* the records of each JSONL file of the input directory
    db,                  \* the SQLite database: the rows of each table it has
    loader_pc            \* DataLoader: 0 before construction, then the position
                         \* of load_directory in file_mapping

samplerVars == <<rare_event_rate, reweighting_model, call, ret>>

evalVars == <<df_train, df_test, pc, aux_fit_on, detector_fit_on, results,
              experiment>>

modelVars == <<survival, changepoint, files, model_call, model_ret, model_data>>

detectVars == <<posterior_tau, detect_args, detection>>

prepVars == <<prep_args, prepared>>

storeVars == <<clock, diagnostics, experiment_results, tables, invocations>>

colVars == <<train_columns, feature_cols, model_columns, proba_columns,
             method_idx, eval_error>>

\* everything around the models: column selection, pipeline, alerts, loader
dagVars == <<task_state, try_number>>

alertVars == <<cp_csv, alerts_csv, alerts_returned>>

loaderVars == <<input_dir, db, loader_pc>>

platformVars == <<colVars, dagVars, alertVars, loaderVars>>

\* the sampler, the evaluator, the Bayesian models and the result rows
analyticsVars == <<samplerVars, evalVars, modelVars, detectVars, prepVars,
                   storeVars>>

\* everything that belongs to the two Bayesian models
bayesVars == <<modelVars, detectVars, prepVars>>

vars == <<rare_event_rate, reweighting_model, call, ret, df_train, df_test, pc,
          aux_fit_on, detector_fit_on, results, experiment, survival,
          changepoint, files, model_call, model_ret, model_data, posterior_tau,
          detect_args, detection, prep_args, prepared, clock, diagnostics,
          experiment_results, tables, invocations, train_columns,
          feature_cols, model_columns, proba_columns, method_idx, eval_error,
          task_state, try_number, cp_csv, alerts_csv, alerts_returned,
          input_dir, db, loader_pc>>

----------------------------------------------------------------------------
\* Bounds of the model.

\* longest dataset handed to compute_importance_weights / fit_reweighting_model
MaxRows == 3
\* longest dataset handed to resample
MaxPop == 2
\* largest explicit n_samples handed to resample
MaxSamples == 2

----------------------------------------------------------------------------
\* Extended rational arithmetic (numpy float64 without rounding).

Abs(n) == IF n < 0 THEN -n ELSE n

Sign(n) == IF n > 0 THEN 1 ELSE IF n < 0 THEN -1 ELSE 0

RECURSIVE GCD(_, _)
GCD(a, b) == IF b = 0 THEN a ELSE GCD(b, a % b)

Norm(n, d) ==
    IF d = 0 THEN <<Sign(n), 0>>
    ELSE LET g == GCD(Abs(n), Abs(d))
             s == Sign(d)
         IN  <<(s * n) \div g, (s * d) \div g>>

Q(n) == <<n, 1>>

NaN == <<0, 0>>

Inf == <<1, 0>>

IsNaN(a) == a = NaN

IsFinite(a) == a[2] # 0

Add(a, b) ==
    IF a[2] = 0 /\ b[2] = 0
    THEN (IF a[1] = b[1] THEN a ELSE NaN)
    ELSE Norm(a[1] * b[2] + b[1] * a[2], a[2] * b[2])

Neg(a) == <<-a[1], a[2]>>

Sub(a, b) == Add(a, Neg(b))

Mul(a, b) == Norm(a[1] * b[1], a[2] * b[2])

Inv(a) == Norm(a[2], a[1])

Div(a, b) == Mul(a, Inv(b))

\* a > 0 as numpy decides it (False for NaN)
Positive(a) == a[1] > 0

\* a == b as numpy decides it (False when either is NaN)
FloatEq(a, b) == ~IsNaN(a) /\ ~IsNaN(b) /\ a = b

RECURSIVE SumSeq(_)
SumSeq(s) == IF s = <<>> THEN Q(0) ELSE Add(Head(s), SumSeq(Tail(s)))

Range(s) == {s[i] : i \in DOMAIN s}

----------------------------------------------------------------------------
\* Data: a labelled feature row is a feature value x and the rare-event label y.

Feat == {0, 1}

Row == [x : Feat, y : {0, 1}]

DataSets(n) == UNION {[1..k -> Row] : k \in 0..n}

\* predicted rare-event probabilities of an auxiliary classifier
Probs == {<<0, 1>>, <<1, 2>>, <<1, 1>>}

\* a fitted classifier is a deterministic map from features to P(rare)
Classifiers == [Feat -> Probs]

NoModel == [fitted |-> FALSE, proba |-> [f \in Feat |-> <<0, 1>>]]

Methods == {"uniform", "stratified", "importance", "adaptive"}

MethodInputs == Methods \cup {"other"}

\* Optional[float] / Optional[int]: <<>> is None, <<v>> is the value v
None == <<>>

Some(v) == <<v>>

DefaultTargetRate == <<1, 10>>

TargetRates == {None, Some(<<3, 10>>)}

RareEventRates == {<<1, 1000>>, <<1, 100>>}

----------------------------------------------------------------------------
\* Results of an operation: weights, rows, nothing, or a raised error.

Weights(w, dz) ==
    [kind |-> "weights", error |-> "", weights |-> w, rows |-> <<>>, divzero |-> dz]

Rows(r) ==
    [kind |-> "rows", error |-> "", weights |-> <<>>, rows |-> r, divzero |-> FALSE]

Raise(e) ==
    [kind |-> "error", error |-> e, weights |-> <<>>, rows |-> <<>>, divzero |-> FALSE]

Returned ==
    [kind |-> "none", error |-> "", weights |-> <<>>, rows |-> <<>>, divzero |-> FALSE]

----------------------------------------------------------------------------
\* ImportanceSampling.compute_importance_weights

Ones(n) == [i \in 1..n |-> Q(1)]

\* weights / weights.sum() * len(df)
Normalize(w) == [i \in DOMAIN w |-> Mul(Div(w[i], SumSeq(w)), Q(Len(w)))]

RareCount(df) == Cardinality({i \in DOMAIN df : df[i].y = 1})

\* rare_count / total_count if total_count > 0 else 0
CurrentRate(df) == IF Len(df) > 0 THEN Norm(RareCount(df), Len(df)) ELSE Q(0)

StratifiedSwappedStrata(df, target_rate) ==
    LET t == IF target_rate = None THEN DefaultTargetRate ELSE target_rate[1]
        current_rate == CurrentRate(df)
    IN  IF current_rate = Q(0)
        THEN Weights(Ones(Len(df)), FALSE)
        ELSE LET rare_weight == Div(t, current_rate)
                 normal_weight == Div(Sub(Q(1), t), Sub(Q(1), current_rate))
                 weights == [i \in DOMAIN df |->
                                IF df[i].y = 1 THEN normal_weight ELSE rare_weight]
             IN  Weights(Normalize(weights), Sub(Q(1), current_rate) = Q(0))

StratifiedUnguarded(df, target_rate) ==
    LET t == IF target_rate = None THEN DefaultTargetRate ELSE target_rate[1]
        current_rate == Norm(RareCount(df), Len(df))
        rare_weight == Div(t, current_rate)
        normal_weight == Div(Sub(Q(1), t), Sub(Q(1), current_rate))
        weights == [i \in DOMAIN df |->
                       IF df[i].y = 1 THEN rare_weight ELSE normal_weight]
    IN  Weights(Normalize(weights), TRUE)

\* method == 'stratified'
StratifiedWeights(df, target_rate) ==
    LET t == IF target_rate = None THEN DefaultTargetRate ELSE target_rate[1]
        current_rate == CurrentRate(df)
    IN  IF current_rate = Q(0)
        THEN Weights(Ones(Len(df)), FALSE)
        ELSE LET rare_weight == Div(t, current_rate)
                 normal_weight == Div(Sub(Q(1), t), Sub(Q(1), current_rate))
                 weights == [i \in DOMAIN df |->
                                IF df[i].y = 1 THEN rare_weight ELSE normal_weight]
             IN  Weights(Normalize(weights), Sub(Q(1), current_rate) = Q(0))

ImportanceUnchecked(model, rate, df) ==
    LET probs == [i \in DOMAIN df |-> model.proba[df[i].x]]
        weights == [i \in DOMAIN df |-> Div(probs[i], rate)]
    IN  Weights(Normalize(weights), SumSeq(weights) = Q(0))

\* method == 'importance'
ImportanceWeights(model, rate, df) ==
    IF ~model.fitted
    THEN Raise("NotFitted")
    ELSE LET probs == [i \in DOMAIN df |-> model.proba[df[i].x]]
             weights == [i \in DOMAIN df |-> Div(probs[i], rate)]
         IN  Weights(Normalize(weights), SumSeq(weights) = Q(0))

Half == <<1, 2>>

AdaptiveNoFallback(model, rate, df) ==
    LET s == StratifiedWeights(df, Some(DefaultTargetRate))
        im == ImportanceWeights(model, rate, df)
    IN  IF im.kind = "error" THEN im
        ELSE Weights([i \in DOMAIN df |->
                         Add(Mul(Half, s.weights[i]), Mul(Half, im.weights[i]))],
                     s.divzero \/ im.divzero)

\* method == 'adaptive'
AdaptiveWeights(model, rate, df) ==
    LET s == StratifiedWeights(df, Some(DefaultTargetRate))
    IN  IF model.fitted
        THEN LET im == ImportanceWeights(model, rate, df)
             IN  IF im.kind = "error" THEN im
                 ELSE Weights([i \in DOMAIN df |->
                                  Add(Mul(Half, s.weights[i]),
                                      Mul(Half, im.weights[i]))],
                              s.divzero \/ im.divzero)
        ELSE s

compute_importance_weights(model, rate, df, method, target_rate) ==
    CASE method = "uniform" -> Weights(Ones(Len(df)), FALSE)
      [] method = "stratified" -> StratifiedWeights(df, target_rate)
      [] method = "importance" -> ImportanceWeights(model, rate, df)
      [] method = "adaptive" -> AdaptiveWeights(model, rate, df)
      [] OTHER -> Raise("UnknownMethod")

----------------------------------------------------------------------------
\* np.random.choice(len(df), size=n_samples, replace=True, p=weights / weights.sum())

\* p = weights / weights.sum()
ChoiceProbabilities(w) == [i \in DOMAIN w |-> Div(w[i], SumSeq(w))]

\* the call raises ValueError: empty population with samples requested, NaN or
\* negative probabilities, probabilities that do not sum to 1 (numpy checks p
\* before it draws, so an empty p, which sums to 0, is rejected too)
ChoiceRaises(pop, size, p) ==
    \/ pop = 0 /\ size # 0
    \/ \E i \in DOMAIN p : IsNaN(p[i]) \/ p[i][1] < 0
    \/ SumSeq(p) # Q(1)

\* the index arrays the call can return: rows of probability 0 are never drawn
ChoiceDraws(pop, size, p) ==
    IF ChoiceRaises(pop, size, p) THEN {}
    ELSE [1..size -> {i \in 1..pop : Positive(p[i])}]

NSamples == {None} \cup {Some(k) : k \in 0..MaxSamples}

SampleSizeIgnored(df, n_samples) == Len(df)

\* n_samples = len(df) when omitted
SampleSize(df, n_samples) == IF n_samples = None THEN Len(df) ELSE n_samples[1]

\* df.iloc[indices].copy()
Take(df, indices) == [k \in DOMAIN indices |-> df[indices[k]]]

Call(op, df, method, n_samples, target_rate) ==
    [op |-> op, df |-> df, method |-> method, n_samples |-> n_samples,
     target_rate |-> target_rate]

----------------------------------------------------------------------------
\* The sampler as an object: its operations called in any order.

Idle == Call("", <<>>, "", None, None)

\* the output paths of the two main() functions
Paths == {"survival_model_results.csv", "changepoint_model_results.csv"}

\* SurvivalModel.__init__ and ChangepointModel.__init__: nothing built, nothing
\* sampled (self.trace is always the same object as self.idata)
NewModel == [model |-> None, idata |-> None]

NoCall == [obj |-> "", op |-> ""]

\* both objects as constructed, and no result file written
ModelsConstructed ==
    /\ survival = NewModel
    /\ changepoint = NewModel
    /\ files = [p \in Paths |-> None]
    /\ model_call = NoCall
    /\ model_ret = ""
    /\ model_data = None
    /\ posterior_tau = <<>>
    /\ detect_args = None
    /\ detection = None
    /\ prep_args = None
    /\ prepared = None
    /\ clock = 0
    /\ diagnostics = [m \in {"survival", "changepoint"} |-> None]
    /\ experiment_results = None
    /\ tables = [p \in Paths |-> None]
    /\ invocations = 0

\* no evaluation has selected columns
NoColumns ==
    /\ train_columns = <<>>
    /\ feature_cols = None
    /\ model_columns = None
    /\ proba_columns = None
    /\ method_idx = 0
    /\ eval_error = ""

\* the tasks of safety_telemetry_pipeline
Tasks ==
    {"ingest_data", "check_data_quality", "transform_staging_to_analytics",
     "run_survival_model", "run_changepoint_model", "run_importance_sampling",
     "generate_alerts", "publish_results"}

\* a DAG run as the scheduler creates it
NoDagRun ==
    /\ task_state = [t \in Tasks |-> "none"]
    /\ try_number = [t \in Tasks |-> 0]

\* the execution dates of two consecutive daily runs, as %Y%m%d
ExecutionDates == {20250101, 20250102}

\* no result file of the change-point task, no alerts
NoAlerts ==
    /\ cp_csv = [d \in ExecutionDates |-> None]
    /\ alerts_csv = [d \in ExecutionDates |-> None]
    /\ alerts_returned = {}

\* the keys of file_mapping, in order
FileNames == <<"trips.jsonl", "events.jsonl", "transitions.jsonl">>

\* the tables the database can come to hold
TableNames ==
    {"staging_trips", "staging_events", "staging_mode_transitions",
     "staging_transitions"}

\* no DataLoader, an empty input directory and no database file
NoLoader ==
    /\ input_dir = [f \in Range(FileNames) |-> None]
    /\ db = [t \in TableNames |-> None]
    /\ loader_pc = 0

\* nothing around the models has started
PlatformIdle ==
    /\ NoColumns
    /\ NoDagRun
    /\ NoAlerts
    /\ NoLoader

\* no experiment is running
NoExperiment ==
    /\ df_train = <<>>
    /\ df_test = <<>>
    /\ pc = "none"
    /\ aux_fit_on = <<>>
    /\ detector_fit_on = {}
    /\ results = <<>>
    /\ experiment = <<>>

InitSampler ==
    /\ rare_event_rate \in RareEventRates
    /\ reweighting_model = NoModel
    /\ call = Idle
    /\ ret = Returned
    /\ NoExperiment
    /\ ModelsConstructed
    /\ PlatformIdle

\* ImportanceSampling.fit_reweighting_model; sklearn rejects an empty frame
FitReweightingModel ==
    /\ call = Idle
    /\ \E df \in DataSets(MaxRows), clf \in Classifiers :
        /\ call' = Call("fit_reweighting_model", df, "", None, None)
        /\ IF df = <<>>
           THEN /\ ret' = Raise("EmptyFit")
                /\ UNCHANGED reweighting_model
           ELSE /\ ret' = Returned
                /\ reweighting_model' = [fitted |-> TRUE, proba |-> clf]
        /\ UNCHANGED <<rare_event_rate, evalVars, bayesVars, storeVars,
                   platformVars>>

ComputeImportanceWeights ==
    /\ call = Idle
    /\ \E df \in DataSets(MaxRows), method \in MethodInputs, target_rate \in TargetRates :
        /\ call' = Call("compute_importance_weights", df, method, None, target_rate)
        /\ ret' = compute_importance_weights(reweighting_model, rare_event_rate,
                                             df, method, target_rate)
        /\ UNCHANGED <<rare_event_rate, reweighting_model, evalVars, bayesVars, storeVars,
                   platformVars>>

\* ImportanceSampling.resample: everything the call can return or raise
ResampleOutcomes(model, rate, df, method, n_samples, target_rate) ==
    LET n == SampleSize(df, n_samples)
        w == compute_importance_weights(model, rate, df, method, target_rate)
        p == ChoiceProbabilities(w.weights)
    IN  IF w.kind = "error" THEN {w}
        ELSE IF ChoiceRaises(Len(df), n, p) THEN {Raise("ChoiceError")}
        ELSE {Rows(Take(df, indices)) : indices \in ChoiceDraws(Len(df), n, p)}

Resample ==
    /\ call = Idle
    /\ \E df \in DataSets(MaxPop), method \in MethodInputs,
          n_samples \in NSamples, target_rate \in TargetRates :
        /\ call' = Call("resample", df, method, n_samples, target_rate)
        /\ ret' \in ResampleOutcomes(reweighting_model, rare_event_rate,
                                     df, method, n_samples, target_rate)
        /\ UNCHANGED <<rare_event_rate, reweighting_model, evalVars, bayesVars, storeVars,
                   platformVars>>

\* the caller takes the returned value (or catches the error): the sampler
\* is ready for its next call
SamplerReturn ==
    /\ call # Idle
    /\ call' = Idle
    /\ ret' = Returned
    /\ UNCHANGED <<rare_event_rate, reweighting_model, evalVars, bayesVars, storeVars,
                   platformVars>>

NextSampler ==
    \/ FitReweightingModel
    \/ ComputeImportanceWeights
    \/ Resample
    \/ SamplerReturn

SpecSampler == InitSampler /\ [][NextSampler]_vars

----------------------------------------------------------------------------
\* ImportanceSampling.evaluate_detection_performance and run_experiment.
\* The experiment starts after train_test_split, which returns two non-empty
\* frames; one step per iteration of the loop over the methods, then the
\* improvement step.

\* longest training split and longest test split
MaxTrain == 2
MaxTest == 2

\* "Assume daily data, convert to hours"
HoursPerRow == 24

\* methods=['uniform', 'stratified', 'importance', 'adaptive']
ExperimentMethods == <<"uniform", "stratified", "importance", "adaptive">>

Frames(n) == UNION {[1..k -> Row] : k \in 1..n}

Labels(df) == [i \in DOMAIN df |-> df[i].y]

\* a fitted detection model is a deterministic map from features to a label
Detectors == [Feat -> {0, 1}]

Predict(det, df) == [i \in DOMAIN df |-> det[df[i].x]]

EstimateMttdZeroWhenUndetected(y_true, y_pred) ==
    LET tp_indices == {i \in DOMAIN y_true : y_true[i] = 1 /\ y_pred[i] = 1}
    IN  IF tp_indices # {}
        THEN LET first == CHOOSE i \in tp_indices : \A j \in tp_indices : i <= j
             IN  Q((first - 1) * HoursPerRow)
        ELSE Q(0)

\* ImportanceSampling._estimate_mttd (row indices count from 0 in the code,
\* from 1 in a sequence)
estimate_mttd(y_true, y_pred) ==
    LET tp_indices == {i \in DOMAIN y_true : y_true[i] = 1 /\ y_pred[i] = 1}
    IN  IF tp_indices # {}
        THEN LET first == CHOOSE i \in tp_indices : \A j \in tp_indices : i <= j
             IN  Q((first - 1) * HoursPerRow)
        ELSE Inf

\* confusion_matrix(y_test, y_pred) and
\* tn, fp, fn, tp = cm.ravel() if cm.size == 4 else (0, 0, 0, 0):
\* the matrix is 2x2 exactly when two labels occur in y_test and y_pred
ConfusionCounts(y_true, y_pred) ==
    LET labels == Range(y_true) \cup Range(y_pred)
        count(t, q) ==
            Cardinality({i \in DOMAIN y_true : y_true[i] = t /\ y_pred[i] = q})
    IN  IF Cardinality(labels) = 2
        THEN [tn |-> count(0, 0), fp |-> count(0, 1),
              fn |-> count(1, 0), tp |-> count(1, 1)]
        ELSE [tn |-> 0, fp |-> 0, fn |-> 0, tp |-> 0]

\* a / b if b > 0 else 0.0
Ratio(a, b) == IF b > 0 THEN Norm(a, b) ELSE Q(0)

\* the record appended to results; y_pred is kept beside it for reference
ResultRow(method, y_test, y_pred) ==
    LET cm == ConfusionCounts(y_test, y_pred)
    IN  [method |-> method,
         sensitivity |-> Ratio(cm.tp, cm.tp + cm.fn),
         specificity |-> Ratio(cm.tn, cm.tn + cm.fp),
         precision |-> Ratio(cm.tp, cm.tp + cm.fp),
         false_positive_rate |-> Ratio(cm.fp, cm.fp + cm.tn),
         mttd_hours |-> estimate_mttd(y_test, y_pred),
         tp |-> cm.tp, fp |-> cm.fp, tn |-> cm.tn, fn |-> cm.fn,
         y_pred |-> y_pred]

FrameToResampleLeaky(train, test) == test

\* df_resampled = self.resample(df_train, method=method)
FrameToResample(train, test) == train

\* a classifier fitted by an earlier call, on other data
StaleModel == [fitted |-> TRUE, proba |-> [f \in Feat |-> <<1, 2>>]]

\* rare_event_rate: float = 0.001
DefaultRareEventRate == <<1, 1000>>

\* the state in which evaluate_detection_performance starts
EvaluationStarts ==
    /\ rare_event_rate = DefaultRareEventRate
    /\ reweighting_model \in {NoModel, StaleModel}
    /\ call = Call("run_experiment", <<>>, "", None, None)
    /\ ret = Returned
    /\ pc = "evaluate"
    /\ aux_fit_on = <<>>
    /\ detector_fit_on = {}
    /\ results = <<>>
    /\ experiment = <<>>
    /\ ModelsConstructed
    /\ PlatformIdle

\* every training split, scored on a one-row test split
InitEvaluator ==
    /\ EvaluationStarts
    /\ df_train \in Frames(MaxTrain)
    /\ df_test \in Frames(1)

\* a training split with a common and a rare row
MixedTrain == <<[x |-> 0, y |-> 0], [x |-> 1, y |-> 1]>>

\* every test split, with a training split that has both classes
InitExperiment ==
    /\ EvaluationStarts
    /\ df_train = MixedTrain
    /\ df_test \in Frames(MaxTest)

\* one iteration of "for method in methods" of evaluate_detection_performance
EvaluateMethod ==
    /\ pc = "evaluate"
    /\ LET method == ExperimentMethods[Len(results) + 1]
           needs_fit == method \in {"importance", "adaptive"}
                        /\ ~reweighting_model.fitted
       IN  \E clf \in (IF needs_fit THEN Classifiers ELSE {reweighting_model.proba}) :
             LET model == IF needs_fit THEN [fitted |-> TRUE, proba |-> clf]
                          ELSE reweighting_model
             IN  /\ reweighting_model' = model
                 /\ aux_fit_on' = IF needs_fit THEN df_train ELSE aux_fit_on
                 /\ \E out \in ResampleOutcomes(model, rare_event_rate,
                                                FrameToResample(df_train, df_test),
                                                method, None, None) :
                      IF out.kind = "error"
                      THEN /\ ret' = out
                           /\ pc' = "error"
                           /\ UNCHANGED <<detector_fit_on, results>>
                      ELSE /\ detector_fit_on' = Range(out.rows)
                           /\ IF Cardinality(Range(Labels(out.rows))) < 2
                              THEN \* a detector fitted on one class has a single
                                   \* predict_proba column: [:, 1] raises IndexError
                                   /\ ret' = Raise("IndexError")
                                   /\ pc' = "error"
                                   /\ UNCHANGED results
                              ELSE \E det \in Detectors :
                                     /\ results' = Append(results,
                                            ResultRow(method, Labels(df_test),
                                                      Predict(det, df_test)))
                                     /\ pc' = IF Len(results) + 1 = Len(ExperimentMethods)
                                              THEN "improve" ELSE "evaluate"
                                     /\ UNCHANGED ret
    /\ UNCHANGED <<rare_event_rate, call, df_train, df_test, experiment, bayesVars, storeVars,
                   platformVars>>

BaselineLastRow(rows) == rows[Len(rows)]

\* results_df[results_df['method'] == 'uniform'][...].values[0]
Baseline(rows) ==
    rows[CHOOSE k \in DOMAIN rows :
            /\ rows[k].method = "uniform"
            /\ \A j \in DOMAIN rows : rows[j].method = "uniform" => k <= j]

\* (value - baseline) / baseline * 100
PctOfBaseline(value, baseline) == Mul(Div(Sub(value, baseline), baseline), Q(100))

\* run_experiment after evaluate_detection_performance has returned:
\* the improvement columns and the returned frame
ComputeImprovements ==
    /\ pc = "improve"
    /\ LET baseline_sensitivity == Baseline(results).sensitivity
           baseline_mttd == Baseline(results).mttd_hours
       IN  experiment' =
             [k \in DOMAIN results |->
                LET sensitivity_improvement ==
                        PctOfBaseline(results[k].sensitivity, baseline_sensitivity)
                IN  results[k] @@
                    [sensitivity_improvement |-> sensitivity_improvement,
                     mttd_improvement_pct |->
                        Mul(Div(Sub(baseline_mttd, results[k].mttd_hours),
                                baseline_mttd), Q(100)),
                     p_value |-> <<1, 20>>,
                     effect_size |-> Div(sensitivity_improvement, Q(100))]]
    /\ pc' = "done"
    /\ UNCHANGED <<rare_event_rate, reweighting_model, call, ret, df_train, df_test,
                   aux_fit_on, detector_fit_on, results, bayesVars, storeVars,
                   platformVars>>

NextEvaluator ==
    \/ EvaluateMethod
    \/ ComputeImprovements

SpecEvaluator == InitEvaluator /\ [][NextEvaluator]_vars

SpecExperiment == InitExperiment /\ [][NextEvaluator]_vars

----------------------------------------------------------------------------
\* evaluate_detection_performance called with feature_cols: the columns that
\* reach the auxiliary classifier.  A column is identified by a number, 0
\* being rare_event_label; the columns of a frame are a sequence.

MaxCols == 3

\* self.rare_event_label
Label == 0

InsertAt(s, p, e) == SubSeq(s, 1, p) \o <<e>> \o SubSeq(s, p + 1, Len(s))

\* df_train.columns: n feature columns, with the label column at any place
TrainColumns ==
    UNION {{InsertAt([i \in 1..n |-> i], p, Label) : p \in 0..n} : n \in 1..MaxCols}

\* [c for c in df.columns if c != self.rare_event_label]
NonLabelColumns(columns) == SelectSeq(columns, LAMBDA c : c # Label)

\* the sequences without repetition over a set of columns, the empty one apart
DistinctSeqs(S) ==
    UNION {{s \in [1..k -> S] : \A i, j \in 1..k : i # j => s[i] # s[j]} :
               k \in 1..Cardinality(S)}

\* what a caller passes as feature_cols: nothing, or feature columns of the
\* training frame in an order of their choice
FeatureColChoices(columns) ==
    {None} \cup {Some(s) : s \in DistinctSeqs(Range(NonLabelColumns(columns)))}

\* evaluate_detection_performance / fit_reweighting_model: feature_cols, or
\* every column but the label when none is given
EffectiveFeatureCols(columns, cols) ==
    IF cols = None THEN NonLabelColumns(columns) ELSE cols[1]

\* RandomForestClassifier.predict_proba on an array X: sklearn compares the
\* number of columns of X with the number the classifier was fitted on (.values
\* drops the column names)
predict_proba_error(fitted, X_columns) ==
    IF Len(X_columns) # Len(fitted) THEN "ValueError" ELSE ""

\* compute_importance_weights, as far as columns go: the error raised and the
\* columns handed to predict_proba; last: the columns handed over before
weight_columns(method, model_cols, columns, last) ==
    IF method \in {"uniform", "stratified"}
    THEN [error |-> "", proba |-> last]
    ELSE IF model_cols = None
    THEN [error |-> IF method = "importance" THEN "ValueError" ELSE "",
          proba |-> last]
    ELSE LET X == NonLabelColumns(columns)
         IN  [error |-> predict_proba_error(model_cols[1], X), proba |-> Some(X)]

\* the sampler, the evaluator, both Bayesian models and the result files at rest
AnalyticsIdle ==
    /\ rare_event_rate = DefaultRareEventRate
    /\ reweighting_model = NoModel
    /\ call = Idle
    /\ ret = Returned
    /\ NoExperiment
    /\ ModelsConstructed

\* evaluate_detection_performance is entered on a fresh ImportanceSampling
InitColumns ==
    /\ AnalyticsIdle
    /\ train_columns \in TrainColumns
    /\ feature_cols \in FeatureColChoices(train_columns)
    /\ model_columns = None
    /\ proba_columns = None
    /\ method_idx = 1
    /\ eval_error = ""
    /\ NoDagRun
    /\ NoAlerts
    /\ NoLoader

\* one iteration of "for method in methods": fit_reweighting_model when
\* needed, then resample, which computes the weights
EvaluateColumns ==
    /\ method_idx \in 1..Len(ExperimentMethods)
    /\ eval_error = ""
    /\ LET method == ExperimentMethods[method_idx]
           cols == EffectiveFeatureCols(train_columns, feature_cols)
           fitted == IF method \in {"importance", "adaptive"} /\ model_columns = None
                     THEN Some(cols)
                     ELSE model_columns
           out == weight_columns(method, fitted, train_columns, proba_columns)
       IN  /\ model_columns' = fitted
           /\ proba_columns' = out.proba
           /\ eval_error' = out.error
           /\ method_idx' = IF out.error = "" THEN method_idx + 1 ELSE method_idx
    /\ UNCHANGED <<train_columns, feature_cols, analyticsVars, dagVars, alertVars,
                   loaderVars>>

NextColumns ==
    \/ EvaluateColumns

SpecColumns == InitColumns /\ [][NextColumns]_vars

----------------------------------------------------------------------------
\* SurvivalModel (models/survival_model.py) and ChangepointModel
\* (models/changepoint_model.py): the fit lifecycle.
\*
\* A prepared survival data set is identified by its n_vehicles.  A prepared
\* change-point data set is either one aggregate series or a 'time_series'
\* list of n series.  A PyMC model is identified by the data it was built
\* from, a posterior (idata) by the model it was sampled from.

MaxVehicles == 2

NotFitted == "Model must be fitted first"

SrvData == 1..MaxVehicles

\* vehicle_idx arguments: None, the valid indices and one past the largest
VehicleIdx == {None} \cup {Some(i) : i \in 0..MaxVehicles}

CpData ==
    {[grouped |-> FALSE, n |-> 1]}
        \cup {[grouped |-> TRUE, n |-> k] : k \in 1..MaxVehicles}

\* the (time, events, exposure) arrays of one series of a data set
CpSeries ==
    {s \in [data : CpData, idx : 0..(MaxVehicles - 1)] : s.idx < s.data.n}

\* what to_csv leaves at a path: the rows of one save_results call
SrvFile(n_vehicles) == Some([family |-> "SRV", rows |-> n_vehicles])

CpFile == Some([family |-> "CP", rows |-> 1])

\* the outcome of an operation: the error raised ("" when it returns), the
\* object and the files afterwards
Outcome(error, self, fs) == [error |-> error, self |-> self, files |-> fs]

\* SurvivalModel.build_model
srv_build_model(self, data) == [self EXCEPT !.model = Some(data)]

\* SurvivalModel.fit; sampled: whether pm.sample returns or raises
srv_fit(self, fs, data, sampled) ==
    LET built == IF self.model = None THEN srv_build_model(self, data) ELSE self
    IN  IF sampled
        THEN Outcome("", [built EXCEPT !.idata = built.model], fs)
        ELSE Outcome("SamplingError", built, fs)

\* SurvivalModel.predict_hazard_rate: isel raises on an index the posterior
\* does not have
srv_predict_hazard_rate(self, vehicle_idx) ==
    IF self.idata = None THEN NotFitted
    ELSE IF vehicle_idx # None /\ vehicle_idx[1] >= self.idata[1]
         THEN "IndexError"
         ELSE ""

\* SurvivalModel.predict_time_to_event; np_math: whether the installed numpy
\* still has np.math, which the population average uses
srv_predict_time_to_event(self, vehicle_idx, np_math) ==
    IF self.idata = None THEN NotFitted
    ELSE IF vehicle_idx # None
         THEN IF vehicle_idx[1] >= self.idata[1] THEN "IndexError" ELSE ""
         ELSE IF np_math THEN "" ELSE "AttributeError"

\* SurvivalModel.posterior_predictive_check
srv_posterior_predictive_check(self) ==
    IF self.idata = None THEN NotFitted ELSE ""

\* SurvivalModel.get_diagnostics and ChangepointModel.get_diagnostics
get_diagnostics(self) ==
    IF self.idata = None THEN NotFitted ELSE ""

\* save_results without its own check: the first thing it touches is
\* self.idata.posterior
SrvSaveResultsUnguarded(self, fs, path, data) ==
    IF self.idata = None
    THEN Outcome("AttributeError", self, fs)
    ELSE IF data > self.idata[1]
         THEN Outcome("IndexError", self, fs)
         ELSE Outcome("", self, [fs EXCEPT ![path] = SrvFile(data)])

\* SurvivalModel.save_results: one row per vehicle index of data, then to_csv
srv_save_results(self, fs, path, data) ==
    IF self.idata = None
    THEN Outcome(NotFitted, self, fs)
    ELSE LET failed(i) == \/ srv_predict_time_to_event(self, Some(i), TRUE) # ""
                          \/ srv_predict_hazard_rate(self, Some(i)) # ""
                          \/ get_diagnostics(self) # ""
         IN  IF \E i \in 0..(data - 1) : failed(i)
             THEN Outcome("IndexError", self, fs)
             ELSE Outcome("", self, [fs EXCEPT ![path] = SrvFile(data)])

\* ChangepointModel.build_model
cp_build_model(self, series) == [self EXCEPT !.model = Some(series)]

\* ChangepointModel.fit: always rebuilds the model, then samples
cp_fit(self, fs, data, vehicle_idx, sampled) ==
    IF data.grouped /\ vehicle_idx = None
    THEN Outcome("ValueError", self, fs)
    ELSE IF data.grouped /\ vehicle_idx[1] >= data.n
    THEN Outcome("IndexError", self, fs)
    ELSE LET series == [data |-> data,
                        idx |-> IF data.grouped THEN vehicle_idx[1] ELSE 0]
             built == cp_build_model(self, series)
         IN  IF sampled
             THEN Outcome("", [built EXCEPT !.idata = built.model], fs)
             ELSE Outcome("SamplingError", built, fs)

\* ChangepointModel.detect_changepoint; in_range: whether time[tau_mode]
\* exists when the series passed is not the one the posterior was sampled on
cp_detect_changepoint(self, data, vehicle_idx, in_range) ==
    IF self.idata = None THEN NotFitted
    ELSE IF data.grouped /\ vehicle_idx = None THEN "TypeError"
    ELSE IF data.grouped /\ vehicle_idx[1] >= data.n THEN "IndexError"
    ELSE LET series == [data |-> data,
                        idx |-> IF data.grouped THEN vehicle_idx[1] ELSE 0]
         IN  IF series = self.idata[1] \/ in_range THEN "" ELSE "IndexError"

\* ChangepointModel.save_results: the vehicle_idx it detects with
cp_save_vehicle_idx(data) == IF data.grouped THEN Some(0) ELSE None

\* ChangepointModel.save_results: detects on series 0 of grouped data
cp_save_results(self, fs, path, data, in_range) ==
    IF self.idata = None
    THEN Outcome(NotFitted, self, fs)
    ELSE LET vehicle_idx == cp_save_vehicle_idx(data)
             error == cp_detect_changepoint(self, data, vehicle_idx, in_range)
         IN  IF error # ""
             THEN Outcome(error, self, fs)
             ELSE Outcome("", self, [fs EXCEPT ![path] = CpFile])

ModelCall(obj, op) == [obj |-> obj, op |-> op]

\* an operation that changes neither object nor any file
Reports(obj, op, error) ==
    /\ model_call' = ModelCall(obj, op)
    /\ model_ret' = error
    /\ model_data' = None
    /\ UNCHANGED <<survival, changepoint, files>>

SrvBuildModel ==
    /\ model_call = NoCall
    /\ \E data \in SrvData :
        /\ survival' = srv_build_model(survival, data)
        /\ model_call' = ModelCall("survival", "build_model")
        /\ model_ret' = ""
        /\ model_data' = Some(data)
    /\ UNCHANGED <<changepoint, files, samplerVars, evalVars, detectVars, prepVars,
                   storeVars,
                   platformVars>>

SrvFit ==
    /\ model_call = NoCall
    /\ \E data \in SrvData, sampled \in BOOLEAN :
        LET out == srv_fit(survival, files, data, sampled)
        IN  /\ survival' = out.self
            /\ files' = out.files
            /\ model_call' = ModelCall("survival", "fit")
            /\ model_ret' = out.error
            /\ model_data' = Some(data)
    /\ UNCHANGED <<changepoint, samplerVars, evalVars, detectVars, prepVars,
                   storeVars,
                   platformVars>>

SrvPredictHazardRate ==
    /\ model_call = NoCall
    /\ \E vehicle_idx \in VehicleIdx :
        Reports("survival", "predict_hazard_rate",
                srv_predict_hazard_rate(survival, vehicle_idx))
    /\ UNCHANGED <<samplerVars, evalVars, detectVars, prepVars,
                   storeVars,
                   platformVars>>

SrvPredictTimeToEvent ==
    /\ model_call = NoCall
    /\ \E vehicle_idx \in VehicleIdx, np_math \in BOOLEAN :
        Reports("survival", "predict_time_to_event",
                srv_predict_time_to_event(survival, vehicle_idx, np_math))
    /\ UNCHANGED <<samplerVars, evalVars, detectVars, prepVars,
                   storeVars,
                   platformVars>>

SrvPosteriorPredictiveCheck ==
    /\ model_call = NoCall
    /\ Reports("survival", "posterior_predictive_check",
               srv_posterior_predictive_check(survival))
    /\ UNCHANGED <<samplerVars, evalVars, detectVars, prepVars,
                   storeVars,
                   platformVars>>

SrvGetDiagnostics ==
    /\ model_call = NoCall
    /\ Reports("survival", "get_diagnostics", get_diagnostics(survival))
    /\ UNCHANGED <<samplerVars, evalVars, detectVars, prepVars,
                   storeVars,
                   platformVars>>

SrvSaveResults ==
    /\ model_call = NoCall
    /\ \E path \in Paths, data \in SrvData :
        LET out == srv_save_results(survival, files, path, data)
        IN  /\ survival' = out.self
            /\ files' = out.files
            /\ model_call' = ModelCall("survival", "save_results")
            /\ model_ret' = out.error
            /\ model_data' = Some(data)
    /\ UNCHANGED <<changepoint, samplerVars, evalVars, detectVars, prepVars,
                   storeVars,
                   platformVars>>

CpBuildModel ==
    /\ model_call = NoCall
    /\ \E series \in CpSeries :
        /\ changepoint' = cp_build_model(changepoint, series)
        /\ model_call' = ModelCall("changepoint", "build_model")
        /\ model_ret' = ""
        /\ model_data' = None
    /\ UNCHANGED <<survival, files, samplerVars, evalVars, detectVars, prepVars,
                   storeVars,
                   platformVars>>

CpFit ==
    /\ model_call = NoCall
    /\ \E data \in CpData, vehicle_idx \in VehicleIdx, sampled \in BOOLEAN :
        LET out == cp_fit(changepoint, files, data, vehicle_idx, sampled)
        IN  /\ changepoint' = out.self
            /\ files' = out.files
            /\ model_call' = ModelCall("changepoint", "fit")
            /\ model_ret' = out.error
            /\ model_data' = Some(data)
    /\ UNCHANGED <<survival, samplerVars, evalVars, detectVars, prepVars,
                   storeVars,
                   platformVars>>

CpDetectChangepoint ==
    /\ model_call = NoCall
    /\ \E data \in CpData, vehicle_idx \in VehicleIdx, in_range \in BOOLEAN :
        Reports("changepoint", "detect_changepoint",
                cp_detect_changepoint(changepoint, data, vehicle_idx, in_range))
    /\ UNCHANGED <<samplerVars, evalVars, detectVars, prepVars,
                   storeVars,
                   platformVars>>

CpGetDiagnostics ==
    /\ model_call = NoCall
    /\ Reports("changepoint", "get_diagnostics", get_diagnostics(changepoint))
    /\ UNCHANGED <<samplerVars, evalVars, detectVars, prepVars,
                   storeVars,
                   platformVars>>

CpSaveResults ==
    /\ model_call = NoCall
    /\ \E path \in Paths, data \in CpData, in_range \in BOOLEAN :
        LET out == cp_save_results(changepoint, files, path, data, in_range)
        IN  /\ changepoint' = out.self
            /\ files' = out.files
            /\ model_call' = ModelCall("changepoint", "save_results")
            /\ model_ret' = out.error
            /\ model_data' = Some(data)
    /\ UNCHANGED <<survival, samplerVars, evalVars, detectVars, prepVars,
                   storeVars,
                   platformVars>>

\* the caller takes the result (or handles the exception) and goes on
ModelReturn ==
    /\ model_call # NoCall
    /\ model_call' = NoCall
    /\ model_ret' = ""
    /\ model_data' = None
    /\ UNCHANGED <<survival, changepoint, files, samplerVars, evalVars, detectVars, prepVars,
                   storeVars,
                   platformVars>>

InitModels ==
    /\ rare_event_rate = DefaultRareEventRate
    /\ reweighting_model = NoModel
    /\ call = Idle
    /\ ret = Returned
    /\ NoExperiment
    /\ ModelsConstructed
    /\ PlatformIdle

NextModels ==
    \/ SrvBuildModel
    \/ SrvFit
    \/ SrvPredictHazardRate
    \/ SrvPredictTimeToEvent
    \/ SrvPosteriorPredictiveCheck
    \/ SrvGetDiagnostics
    \/ SrvSaveResults
    \/ CpBuildModel
    \/ CpFit
    \/ CpDetectChangepoint
    \/ CpGetDiagnostics
    \/ CpSaveResults
    \/ ModelReturn

SpecModels == InitModels /\ [][NextModels]_vars

----------------------------------------------------------------------------
\* ChangepointModel.detect_changepoint in detail: the posterior draws of tau
\* and the time array of the series it is given.

MaxPoints == 5

MaxDraws == 3

HoursPerDay == 24

\* "not at the very beginning": the first 20% of the series
EarlyFraction == <<1, 5>>

\* the default threshold_probability and two others
Thresholds == {<<0, 1>>, <<1, 2>>, <<1, 1>>}

SetMin(S) == CHOOSE x \in S : \A y \in S : x <= y

RECURSIVE SortedSeq(_)
\* the elements of a finite set of numbers in increasing order
SortedSeq(S) ==
    IF S = {} THEN <<>> ELSE <<SetMin(S)>> \o SortedSeq(S \ {SetMin(S)})

\* time arrays of a series: two or more day numbers in strictly increasing
\* order
SeriesTimes ==
    {SortedSeq(days) : days \in {S \in SUBSET (0..(MaxPoints - 1)) :
                                     Cardinality(S) >= 2}}

\* what pm.sample can draw for tau ~ DiscreteUniform(1, n - 1)
TauDraws(n) == UNION {[1..k -> 1..(n - 1)] : k \in 1..MaxDraws}

\* np.bincount(x)[v]
Bincount(x, v) == Cardinality({i \in DOMAIN x : x[i] = v})

\* int(np.argmax(np.bincount(tau_samples))): the first of the most frequent
TauMode(tau_samples) ==
    CHOOSE v \in Range(tau_samples) :
        \A w \in Range(tau_samples) :
            \/ Bincount(tau_samples, v) > Bincount(tau_samples, w)
            \/ Bincount(tau_samples, v) = Bincount(tau_samples, w) /\ v <= w

\* a > b on finite floats
Greater(a, b) == Positive(Sub(a, b))

ThresholdReachedCounts(prob, threshold) ==
    Greater(prob, threshold) \/ prob = threshold

\* changepoint_prob > threshold_probability
ExceedsThreshold(prob, threshold) == Greater(prob, threshold)

\* ChangepointModel.detect_changepoint on a fitted object; time has 0-based
\* indices in the code, 1-based ones here
detect_changepoint(tau_samples, time, threshold_probability) ==
    LET tau_mode == TauMode(tau_samples)
        beyond == {i \in DOMAIN tau_samples :
                      Greater(Q(tau_samples[i]), Mul(Q(Len(time)), EarlyFraction))}
        changepoint_prob == Norm(Cardinality(beyond), Len(tau_samples))
    IN  IF tau_mode >= Len(time)
        THEN [error |-> "IndexError"]
        ELSE [error |-> "",
              changepoint_detected |->
                  ExceedsThreshold(changepoint_prob, threshold_probability),
              changepoint_time_numeric |-> time[tau_mode + 1],
              changepoint_probability |-> changepoint_prob,
              mttd_hours |->
                  Q((time[Len(time)] - time[tau_mode + 1]) * HoursPerDay)]

\* ChangepointModel.fit on a series of n points, when sampling returns
DetectFit ==
    /\ detect_args = None
    /\ \E n \in 2..MaxPoints :
           posterior_tau' \in TauDraws(n)
    /\ UNCHANGED <<detect_args, detection, samplerVars, evalVars, modelVars, prepVars,
                   storeVars,
                   platformVars>>

\* detect_changepoint(data, vehicle_idx, threshold_probability) with the
\* series that data and vehicle_idx select
Detect ==
    /\ detect_args = None
    /\ posterior_tau # <<>>
    /\ \E time \in SeriesTimes, threshold \in Thresholds :
        /\ detect_args' = Some([time |-> time, threshold |-> threshold])
        /\ detection' = Some(detect_changepoint(posterior_tau, time, threshold))
    /\ UNCHANGED <<posterior_tau, samplerVars, evalVars, modelVars, prepVars,
                   storeVars,
                   platformVars>>

\* the caller takes the result (or handles the exception) and goes on
DetectReturn ==
    /\ detect_args # None
    /\ detect_args' = None
    /\ detection' = None
    /\ UNCHANGED <<posterior_tau, samplerVars, evalVars, modelVars, prepVars,
                   storeVars,
                   platformVars>>

NextDetect ==
    \/ DetectFit
    \/ Detect
    \/ DetectReturn

SpecDetect == InitModels /\ [][NextDetect]_vars

----------------------------------------------------------------------------
\* prepare_data of both models.
\*
\* A change-point frame is a sequence of rows with the default columns
\* date_key (a day number), vehicle_id (a number), critical_events and
\* trip_count.  The frame may lack the vehicle column, its time column may be
\* named 'date_key' or 'time_numeric', and its dtype may be datetime or
\* numeric.

MaxDays == 10

MinPoints == 10

CpVehicles == {1, 2}

TimeCols == {"date_key", "time_numeric"}

CpRow(day, vehicle, events, trips) ==
    [date_key |-> day, vehicle_id |-> vehicle, critical_events |-> events,
     trip_count |-> trips]

\* k rows of one vehicle, one per day k, k-1, .., 1, latest first
RowsOf(vehicle, k) == [i \in 1..k |-> CpRow(k + 1 - i, vehicle, i % 2, 1 + (i % 3))]

\* the frames prepared: vehicle 1 with ka days, vehicle 2 with kb days, and
\* possibly a second row of vehicle 1 on its first day
CpFrame(ka, kb, dup) ==
    RowsOf(2, kb) \o RowsOf(1, ka)
        \o (IF dup THEN <<CpRow(1, 1, 1, 1)>> ELSE <<>>)

CpFrames == {CpFrame(ka, kb, dup) : ka \in 1..MaxDays, kb \in 0..MaxDays,
                                    dup \in BOOLEAN}

RECURSIVE SumCol(_, _, _)
\* the sum of column col over the rows of df with the given indices
SumCol(df, col, rows) ==
    IF rows = {} THEN 0
    ELSE LET i == SetMin(rows)
         IN  df[i][col] + SumCol(df, col, rows \ {i})

\* groupby(time_col).agg(sum) over the rows with the given indices, as the
\* arrays of one series; key[i] is the value of the time column in row i
GroupByTime(df, rows, key) ==
    LET keys == SortedSeq({key[i] : i \in rows})
        at(k) == {i \in rows : key[i] = keys[k]}
    IN  [time |-> keys,
         events |-> [k \in DOMAIN keys |-> SumCol(df, "critical_events", at(k))],
         exposure |-> [k \in DOMAIN keys |-> SumCol(df, "trip_count", at(k))],
         dates |-> keys]

PrepError(e) == [error |-> e]

\* a vehicle series is kept from this many points on
KeepsSeries(n_points) == n_points >= MinPoints

\* the grouped frame has the group keys and the aggregated columns only
GroupedHasColumn(col, time_col) == col = time_col

\* ChangepointModel.prepare_data
cp_prepare_data(df, time_col, has_vehicle_col, is_datetime) ==
    LET start_date == SetMin({df[i].date_key : i \in DOMAIN df})
        \* df_sorted['time_numeric']; it is the time column itself when
        \* time_col = 'time_numeric'
        time_numeric(row) ==
            IF is_datetime THEN row.date_key - start_date ELSE row.date_key
        key == [i \in DOMAIN df |->
                   IF time_col = "time_numeric" THEN time_numeric(df[i])
                   ELSE df[i].date_key]
        readable == GroupedHasColumn("time_numeric", time_col)
        vehicles == SortedSeq({df[i].vehicle_id : i \in DOMAIN df})
        series(v) == GroupByTime(df, {i \in DOMAIN df : df[i].vehicle_id = v}, key)
        kept == SelectSeq(vehicles, LAMBDA v : KeepsSeries(Len(series(v).time)))
    IN  IF has_vehicle_col
        THEN IF kept # <<>> /\ ~readable
             THEN PrepError("KeyError")
             ELSE [error |-> "",
                   time_series |-> [i \in DOMAIN kept |-> series(kept[i])],
                   vehicle_ids |-> kept,
                   start_date |-> IF is_datetime THEN Some(start_date) ELSE None]
        ELSE IF ~readable
             THEN PrepError("KeyError")
             ELSE GroupByTime(df, DOMAIN df, key)
                      @@ [error |-> "",
                          start_date |-> IF is_datetime THEN Some(start_date)
                                         ELSE None]

\* A survival frame is a sequence of rows with the default columns
\* time_to_event_hours, regression_occurred and vehicle_id; None is a missing
\* value (NaN), Some(v) the value v.

MaxSrvRows == 3

SrvRow ==
    [time_to_event_hours : {None, Some(100)},
     regression_occurred : {None, Some(1)},
     vehicle_id : {None, Some(1), Some(2)}]

SrvFrames == UNION {[1..n -> SrvRow] : n \in 0..MaxSrvRows}

\* a row that dropna keeps
Complete(row) ==
    /\ row.time_to_event_hours # None
    /\ row.regression_occurred # None
    /\ row.vehicle_id # None

RECURSIVE Unique(_)
\* Series.unique(): the distinct values in order of first appearance
Unique(x) ==
    IF x = <<>> THEN <<>>
    ELSE LET front == Unique(SubSeq(x, 1, Len(x) - 1))
             last == x[Len(x)]
         IN  IF last \in Range(front) THEN front ELSE Append(front, last)

OneBasedIndexOf(vehicle_ids, vid) ==
    CHOOSE k \in DOMAIN vehicle_ids : vehicle_ids[k] = vid

\* {vid: idx for idx, vid in enumerate(vehicle_ids)}[vid]
IndexOf(vehicle_ids, vid) ==
    (CHOOSE k \in DOMAIN vehicle_ids : vehicle_ids[k] = vid) - 1

\* SurvivalModel.prepare_data
srv_prepare_data(df) ==
    LET df_clean == SelectSeq(df, Complete)
        vehicle_ids == Unique([i \in DOMAIN df_clean |-> df_clean[i].vehicle_id[1]])
    IN  [error |-> "",
         time |-> [i \in DOMAIN df_clean |-> df_clean[i].time_to_event_hours[1]],
         event |-> [i \in DOMAIN df_clean |-> df_clean[i].regression_occurred[1]],
         vehicle_idx |-> [i \in DOMAIN df_clean |->
                             IndexOf(vehicle_ids, df_clean[i].vehicle_id[1])],
         n_vehicles |-> Len(vehicle_ids),
         vehicle_ids |-> vehicle_ids]

SrvPrepareData ==
    /\ prep_args = None
    /\ \E df \in SrvFrames :
        /\ prep_args' = Some([model |-> "survival", df |-> df])
        /\ prepared' = Some(srv_prepare_data(df))
    /\ UNCHANGED <<samplerVars, evalVars, modelVars, detectVars,
                   storeVars,
                   platformVars>>

\* without the vehicle column the vehicle_id of the rows is not there to read
CpPrepareData ==
    /\ prep_args = None
    /\ \E df \in CpFrames, time_col \in TimeCols, has_vehicle_col \in BOOLEAN,
          is_datetime \in BOOLEAN :
        /\ prep_args' = Some([model |-> "changepoint", df |-> df,
                              time_col |-> time_col,
                              has_vehicle_col |-> has_vehicle_col,
                              is_datetime |-> is_datetime])
        /\ prepared' = Some(cp_prepare_data(df, time_col, has_vehicle_col,
                                            is_datetime))
    /\ UNCHANGED <<samplerVars, evalVars, modelVars, detectVars,
                   storeVars,
                   platformVars>>

\* the caller takes the prepared data (or handles the exception) and goes on
PrepareReturn ==
    /\ prep_args # None
    /\ prep_args' = None
    /\ prepared' = None
    /\ UNCHANGED <<samplerVars, evalVars, modelVars, detectVars,
                   storeVars,
                   platformVars>>

NextPrepare ==
    \/ SrvPrepareData
    \/ CpPrepareData
    \/ PrepareReturn

SpecPrepare == InitModels /\ [][NextPrepare]_vars

----------------------------------------------------------------------------
\* The result rows that save_results of the three components writes, the run
\* ids they carry and the clock the ids are read from.
\*
\* The clock counts whole seconds, the resolution of the run ids.  Every row
\* also carries the number of the invocation that produced it, which is not
\* a column of the file.

MaxClock == 2

MaxCalls == 2

\* r_hat values around the convergence threshold; NaN when it is undefined
Rhats == {<<1, 1>>, <<101, 100>>, <<11, 10>>, NaN}

\* max_rhat < 1.01
RhatThreshold == <<101, 100>>

\* f"{prefix}_{datetime.utcnow().strftime('%Y%m%d_%H%M%S')}"
RunId(prefix, now) == [prefix |-> prefix, second |-> now]

ConvergedUpToThreshold(max_rhat) ==
    Greater(RhatThreshold, max_rhat) \/ max_rhat = RhatThreshold

\* 'convergence_flag': max_rhat < 1.01; False for NaN
ConvergenceFlag(max_rhat) == Greater(RhatThreshold, max_rhat)

\* the clock readings of n consecutive utcnow() calls that start at now
Readings(now, n) ==
    {r \in [1..n -> now..MaxClock] :
        \A i \in 1..(n - 1) : r[i] <= r[i + 1]}

\* the frame SurvivalModel.save_results builds: one row per vehicle index,
\* each with its own reading of the clock
SrvResultRows(n_vehicles, max_rhat, readings, invocation) ==
    [i \in 1..n_vehicles |->
        [model_run_id |-> RunId("SRV", readings[i]),
         model_run_timestamp |-> readings[i],
         vehicle_id |-> Some(i - 1),
         convergence_flag |-> ConvergenceFlag(max_rhat),
         rhat_max |-> max_rhat,
         invocation |-> invocation]]

\* the frame ChangepointModel.save_results builds: one row, of no vehicle
\* ('AGGREGATE'); rhat_max is 1.0 when the summary has no r_hat column
\* (diagnostic None here)
CpResultRows(diagnostic, now, invocation) ==
    LET max_rhat == IF diagnostic = None THEN Q(1) ELSE diagnostic[1]
    IN  <<[model_run_id |-> RunId("CP", now),
           model_run_timestamp |-> now,
           vehicle_id |-> None,
           convergence_flag |-> ConvergenceFlag(max_rhat),
           rhat_max |-> max_rhat,
           invocation |-> invocation]>>

\* the frame ImportanceSampling.save_results builds: one row per method
ExperimentRows(returned) ==
    [k \in DOMAIN ExperimentMethods |->
        [experiment_id |-> returned.experiment_id,
         experiment_timestamp |-> returned.experiment_timestamp,
         sampling_method |-> ExperimentMethods[k],
         invocation |-> returned.invocation]]

\* df.to_csv(output_path, index=False): the file holds this frame
ToCsv(fs, path, rows) == [fs EXCEPT ![path] = Some(rows)]

\* both models fitted, with any diagnostics
InitStore ==
    /\ rare_event_rate = DefaultRareEventRate
    /\ reweighting_model = NoModel
    /\ call = Idle
    /\ ret = Returned
    /\ NoExperiment
    /\ survival = NewModel
    /\ changepoint = NewModel
    /\ files = [p \in Paths |-> None]
    /\ model_call = NoCall
    /\ model_ret = ""
    /\ model_data = None
    /\ posterior_tau = <<>>
    /\ detect_args = None
    /\ detection = None
    /\ prep_args = None
    /\ prepared = None
    /\ clock = 0
    /\ diagnostics \in [{"survival", "changepoint"} -> {Some(r) : r \in Rhats}
                                                          \cup {None}]
    /\ diagnostics["survival"] # None
    /\ experiment_results = None
    /\ tables = [p \in Paths |-> None]
    /\ invocations = 0
    /\ PlatformIdle

\* time passes
Tick ==
    /\ clock < MaxClock
    /\ clock' = clock + 1
    /\ UNCHANGED <<diagnostics, experiment_results, tables, invocations,
                   samplerVars, evalVars, bayesVars,
                   platformVars>>

\* SurvivalModel.save_results on a fitted model
SaveSurvival ==
    /\ invocations < MaxCalls
    /\ \E path \in Paths, n_vehicles \in 1..MaxVehicles :
        \E readings \in Readings(clock, n_vehicles) :
            /\ tables' = ToCsv(tables, path,
                               SrvResultRows(n_vehicles, diagnostics["survival"][1],
                                             readings, invocations + 1))
            /\ clock' = readings[n_vehicles]
    /\ invocations' = invocations + 1
    /\ UNCHANGED <<diagnostics, experiment_results, samplerVars, evalVars,
                   bayesVars,
                   platformVars>>

\* ChangepointModel.save_results on a fitted model; detect_changepoint may
\* raise before anything is written
SaveChangepoint ==
    /\ invocations < MaxCalls
    /\ \E path \in Paths, detects \in BOOLEAN :
        tables' = IF detects
                  THEN ToCsv(tables, path,
                             CpResultRows(diagnostics["changepoint"], clock,
                                          invocations + 1))
                  ELSE tables
    /\ invocations' = invocations + 1
    /\ UNCHANGED <<clock, diagnostics, experiment_results, samplerVars,
                   evalVars, bayesVars,
                   platformVars>>

\* ImportanceSampling.run_experiment: the dictionary it returns
RunExperiment ==
    /\ invocations < MaxCalls
    /\ experiment_results' = Some([experiment_id |-> RunId("IS", clock),
                                   experiment_timestamp |-> clock,
                                   invocation |-> invocations + 1])
    /\ invocations' = invocations + 1
    /\ UNCHANGED <<clock, diagnostics, tables, samplerVars, evalVars, bayesVars,
                   platformVars>>

\* ImportanceSampling.save_results(experiment_results, output_path)
SaveExperiment ==
    /\ experiment_results # None
    /\ \E path \in Paths :
        /\ tables[path] # Some(ExperimentRows(experiment_results[1]))
        /\ tables' = ToCsv(tables, path, ExperimentRows(experiment_results[1]))
    /\ UNCHANGED <<clock, diagnostics, experiment_results, invocations,
                   samplerVars, evalVars, bayesVars,
                   platformVars>>

NextStore ==
    \/ Tick
    \/ SaveSurvival
    \/ SaveChangepoint
    \/ RunExperiment
    \/ SaveExperiment

SpecStore == InitStore /\ [][NextStore]_vars

----------------------------------------------------------------------------
\* The Airflow DAG safety_telemetry_pipeline (dags/safety_telemetry_pipeline.py):
\* one DAG run under the scheduler.  Every task has the default trigger rule
\* (all upstream tasks succeeded) and the retries of default_args.

\* default_args['retries']
Retries == 2

ModelTasks ==
    {"run_survival_model", "run_changepoint_model", "run_importance_sampling"}

\* a >> b, as a set of pairs <<a, b>>
Chain(upstream, downstream) == upstream \X downstream

\* the flow with generate_alerts waiting for the two Bayesian models only
EdgesAlertsEarly ==
    Chain({"ingest_data"}, {"check_data_quality"})
        \cup Chain({"check_data_quality"}, {"transform_staging_to_analytics"})
        \cup Chain({"transform_staging_to_analytics"}, ModelTasks)
        \cup Chain({"run_survival_model", "run_changepoint_model"},
                   {"generate_alerts"})
        \cup Chain({"generate_alerts"}, {"publish_results"})

\* the four lines of "Define DAG Flow"
Edges ==
    Chain({"ingest_data"}, {"check_data_quality"})
        \cup Chain({"check_data_quality"}, {"transform_staging_to_analytics"})
        \cup Chain({"transform_staging_to_analytics"}, ModelTasks)
        \cup Chain(ModelTasks, {"generate_alerts"})
        \cup Chain({"generate_alerts"}, {"publish_results"})

Upstream(t) == {u \in Tasks : <<u, t>> \in Edges}

\* the scheduler queues a task instance whose upstream tasks all succeeded,
\* for the first time or after a failed try
StartTask ==
    \E t \in Tasks :
        /\ task_state[t] \in {"none", "up_for_retry"}
        /\ \A u \in Upstream(t) : task_state[u] = "success"
        /\ task_state' = [task_state EXCEPT ![t] = "running"]
        /\ try_number' = [try_number EXCEPT ![t] = @ + 1]
        /\ UNCHANGED <<analyticsVars, colVars, alertVars, loaderVars>>

\* the callable (or the BigQuery check) returns
TaskSucceeds ==
    \E t \in Tasks :
        /\ task_state[t] = "running"
        /\ task_state' = [task_state EXCEPT ![t] = "success"]
        /\ UNCHANGED <<try_number, analyticsVars, colVars, alertVars, loaderVars>>

\* the callable raises (or the check finds no row): retried while tries remain
TaskFails ==
    \E t \in Tasks :
        /\ task_state[t] = "running"
        /\ task_state' = [task_state EXCEPT ![t] =
                              IF try_number[t] <= Retries
                              THEN "up_for_retry"
                              ELSE "failed"]
        /\ UNCHANGED <<try_number, analyticsVars, colVars, alertVars, loaderVars>>

\* a task below a failed one is never run
UpstreamFailed ==
    \E t \in Tasks :
        /\ task_state[t] = "none"
        /\ \E u \in Upstream(t) : task_state[u] \in {"failed", "upstream_failed"}
        /\ task_state' = [task_state EXCEPT ![t] = "upstream_failed"]
        /\ UNCHANGED <<try_number, analyticsVars, colVars, alertVars, loaderVars>>

InitPipeline ==
    /\ AnalyticsIdle
    /\ NoColumns
    /\ NoDagRun
    /\ NoAlerts
    /\ NoLoader

NextPipeline ==
    \/ StartTask
    \/ TaskSucceeds
    \/ TaskFails
    \/ UpstreamFailed

SpecPipeline == InitPipeline /\ [][NextPipeline]_vars

----------------------------------------------------------------------------
\* generate_alerts (dags/safety_telemetry_pipeline.py): the callable of the
\* generate_alerts task, run for an execution date.  A row of the change-point
\* result file is its changepoint_detected and hazard_ratio columns.

MaxCpRows == 2

HazardRatios == {<<3, 2>>, <<2, 1>>, <<5, 2>>}

\* the 2.0 that hazard_ratio is compared with
CriticalRatio == <<2, 1>>

CpCsvRow == [changepoint_detected : BOOLEAN, hazard_ratio : HazardRatios]

\* a result file: missing, or its rows as pd.read_csv returns them
CpCsvFiles ==
    {None} \cup {Some(rows) : rows \in UNION {[1..k -> CpCsvRow] : k \in 0..MaxCpRows}}

\* f"ALERT_{execution_date.strftime('%Y%m%d')}_{len(alerts)}"
AlertId(date, n) == <<"ALERT", date, n>>

SeverityFromThreshold(hazard_ratio) ==
    IF Greater(hazard_ratio, CriticalRatio) \/ hazard_ratio = CriticalRatio
    THEN "critical"
    ELSE "warning"

\* 'critical' if row['hazard_ratio'] > 2.0 else 'warning'
Severity(hazard_ratio) ==
    IF Greater(hazard_ratio, CriticalRatio) THEN "critical" ELSE "warning"

\* the alert appended for a row, alerts being the list so far
Alert(date, row, alerts) ==
    [alert_id |-> AlertId(date, Len(alerts)),
     alert_timestamp |-> date,
     severity |-> Severity(row.hazard_ratio),
     alert_value |-> row.hazard_ratio]

\* for _, row in df_cp.iterrows(), from row i on
RECURSIVE CollectAlerts(_, _, _, _)
CollectAlerts(date, rows, i, alerts) ==
    IF i > Len(rows)
    THEN alerts
    ELSE CollectAlerts(date, rows, i + 1,
                       IF rows[i].changepoint_detected
                       THEN Append(alerts, Alert(date, rows[i], alerts))
                       ELSE alerts)

\* generate_alerts: the alert files after it has run for an execution date
generate_alerts(found, written, date) ==
    IF found[date] = None
    THEN written
    ELSE LET alerts == CollectAlerts(date, found[date][1], 1, <<>>)
         IN  IF alerts # <<>>
             THEN [written EXCEPT ![date] = Some(alerts)]
             ELSE written

\* the result files that the change-point task left, and no alerts yet
InitAlerts ==
    /\ AnalyticsIdle
    /\ NoColumns
    /\ NoDagRun
    /\ NoLoader
    /\ cp_csv \in [ExecutionDates -> CpCsvFiles]
    /\ alerts_csv = [d \in ExecutionDates |-> None]
    /\ alerts_returned = {}

GenerateAlerts ==
    \E date \in ExecutionDates :
        /\ alerts_csv' = generate_alerts(cp_csv, alerts_csv, date)
        /\ alerts_returned' = alerts_returned \cup {date}
        /\ UNCHANGED <<cp_csv, analyticsVars, colVars, dagVars, loaderVars>>

NextAlerts ==
    \/ GenerateAlerts

SpecAlerts == InitAlerts /\ [][NextAlerts]_vars

----------------------------------------------------------------------------
\* DataLoader (ingestion/loader.py) with the local target: construction and
\* load_directory.  A JSONL file is the number of its records, a record is
\* identified by its file and line, a table is the set of records it holds.

MaxRecords == 2

\* the tables _setup_local_tables creates
CreatedTables == {"staging_trips", "staging_events", "staging_mode_transitions"}

\* file_mapping
TableNameOf(filename) ==
    CASE filename = "trips.jsonl" -> "trips"
      [] filename = "events.jsonl" -> "events"
      [] filename = "transitions.jsonl" -> "transitions"

\* f"staging_{table_name}"
StagingTable(table_name) ==
    CASE table_name = "trips" -> "staging_trips"
      [] table_name = "events" -> "staging_events"
      [] table_name = "transitions" -> "staging_transitions"

\* a file of the input directory: missing, or its number of lines
JsonlFiles == {None} \cup {Some(n) : n \in 0..MaxRecords}

\* the records read from a file of n lines
Records(filename, n) == {<<filename, k>> : k \in 1..n}

\* _setup_local_tables: CREATE TABLE IF NOT EXISTS for the three tables
setup_local_tables(database) ==
    [t \in TableNames |->
        IF t \in CreatedTables /\ database[t] = None THEN Some({}) ELSE database[t]]

\* df.to_sql(name, conn, if_exists='append'): pandas creates a table that does
\* not exist, then inserts
to_sql(database, name, records) ==
    [database EXCEPT ![name] = Some((IF @ = None THEN {} ELSE @[1]) \cup records)]

\* load_jsonl_file on an existing file: nothing is loaded from an empty one
load_jsonl_file(database, filename, n, table_name) ==
    IF n = 0
    THEN database
    ELSE to_sql(database, StagingTable(table_name), Records(filename, n))

\* an input directory with any of the three files, and no database yet
InitLoader ==
    /\ AnalyticsIdle
    /\ NoColumns
    /\ NoDagRun
    /\ NoAlerts
    /\ input_dir \in [Range(FileNames) -> JsonlFiles]
    /\ db = [t \in TableNames |-> None]
    /\ loader_pc = 0

\* DataLoader(target='local')
ConstructLoader ==
    /\ loader_pc = 0
    /\ db' = setup_local_tables(db)
    /\ loader_pc' = 1
    /\ UNCHANGED <<input_dir, analyticsVars, colVars, dagVars, alertVars>>

\* one iteration of "for filename, table_name in file_mapping.items()"
LoadNextFile ==
    /\ loader_pc \in DOMAIN FileNames
    /\ LET filename == FileNames[loader_pc]
       IN  db' = IF input_dir[filename] # None
                 THEN load_jsonl_file(db, filename, input_dir[filename][1],
                                      TableNameOf(filename))
                 ELSE db
    /\ loader_pc' = loader_pc + 1
    /\ UNCHANGED <<input_dir, analyticsVars, colVars, dagVars, alertVars>>

NextLoader ==
    \/ ConstructLoader
    \/ LoadNextFile

SpecLoader == InitLoader /\ [][NextLoader]_vars

----------------------------------------------------------------------------
\* Properties of the weighting schemes and of resample (SpecSampler).

IsWeightsCall == call.op = "compute_importance_weights"

IsResampleCall == call.op = "resample"

HasRare(df) == \E i \in DOMAIN df : df[i].y = 1

HasCommon(df) == \E i \in DOMAIN df : df[i].y = 0

\* the target rate a call asks for: its argument, 0.1 when omitted
RequestedRate(c) == IF c.target_rate = None THEN <<1, 10>> ELSE c.target_rate[1]

\* sum of the weights of the rare rows divided by the sum of all weights
WeightedRareProportion(df, w) ==
    Div(SumSeq([i \in DOMAIN w |-> IF df[i].y = 1 THEN w[i] ELSE Q(0)]), SumSeq(w))

\* C1: for every method and every non-empty dataset (importance and adaptive:
\* with the auxiliary classifier fitted, whatever it predicts),
\* compute_importance_weights returns one weight per row, the weights sum to
\* the row count and every weight is strictly positive.
C1_WeightsSumToCountAndPositive ==
    ( /\ IsWeightsCall
      /\ call.method \in Methods
      /\ call.df # <<>>
      /\ (call.method \in {"importance", "adaptive"} => reweighting_model.fitted) )
    => /\ ret.kind = "weights"
       /\ Len(ret.weights) = Len(call.df)
       /\ SumSeq(ret.weights) = Q(Len(call.df))
       /\ \A i \in DOMAIN ret.weights : Positive(ret.weights[i])

\* C2: on a dataset without rare rows (the empty dataset included) the
\* stratified weights are 1 for every row and no division by zero is performed.
C2_ZeroRareStratifiedIsUniform ==
    ( /\ IsWeightsCall
      /\ call.method = "stratified"
      /\ ~HasRare(call.df) )
    => /\ ret.kind = "weights"
       /\ ret.weights = [i \in 1..Len(call.df) |-> <<1, 1>>]
       /\ ~ret.divzero

C2_Witness ==
    /\ IsWeightsCall
    /\ call.method = "stratified"
    /\ Len(call.df) >= 2
    /\ ~HasRare(call.df)
    /\ ret.kind = "weights"
    /\ \A i \in DOMAIN ret.weights : ret.weights[i] = <<1, 1>>

C4_StratifiedReachesTargetRate ==
    ( /\ IsWeightsCall
      /\ call.method = "stratified"
      /\ HasRare(call.df) )
    => /\ ret.kind = "weights"
       /\ SumSeq(ret.weights) = Q(Len(call.df))
       /\ WeightedRareProportion(call.df, ret.weights) = RequestedRate(call)

\* C4 (amended): on every dataset with at least one rare row and at least one
\* common row, each rare row weighs r_target/r_observed and each common row
\* (1-r_target)/(1-r_observed), the weights sum to the row count and the
\* weighted proportion of rare rows equals r_target.
C4_StratifiedReachesTargetRateMixed ==
    ( /\ IsWeightsCall
      /\ call.method = "stratified"
      /\ HasRare(call.df)
      /\ HasCommon(call.df) )
    => LET t == RequestedRate(call)
           observed == <<Cardinality({i \in DOMAIN call.df : call.df[i].y = 1}),
                         Len(call.df)>>
       IN  /\ ret.kind = "weights"
           /\ \A i \in DOMAIN call.df :
                ret.weights[i] =
                    IF call.df[i].y = 1
                    THEN Div(t, observed)
                    ELSE Div(Sub(Q(1), t), Sub(Q(1), observed))
           /\ SumSeq(ret.weights) = Q(Len(call.df))
           /\ WeightedRareProportion(call.df, ret.weights) = t

C4_Witness ==
    /\ IsWeightsCall
    /\ call.method = "stratified"
    /\ call.target_rate = None
    /\ Len(call.df) = 3
    /\ Cardinality({i \in DOMAIN call.df : call.df[i].y = 1}) = 1
    /\ ret.kind = "weights"
    /\ WeightedRareProportion(call.df, ret.weights) = <<1, 10>>

\* C5: while no auxiliary classifier has been fitted, compute_importance_weights
\* and resample with method importance raise the not-fitted error, return no
\* weights or rows, and leave the sampler state as it was.
C5_ImportanceUnfittedRaises ==
    [][ ( /\ call'.op \in {"compute_importance_weights", "resample"}
          /\ call'.method = "importance"
          /\ ~reweighting_model.fitted )
        => /\ ret'.kind = "error"
           /\ ret'.error = "NotFitted"
           /\ ret'.weights = <<>>
           /\ ret'.rows = <<>>
           /\ reweighting_model' = reweighting_model
           /\ rare_event_rate' = rare_event_rate ]_vars

C5_Witness ==
    /\ IsResampleCall
    /\ call.method = "importance"
    /\ call.df # <<>>
    /\ ~reweighting_model.fitted
    /\ ret.kind = "error"
    /\ ret.error = "NotFitted"

\* C6: the adaptive weight of every row is half its stratified weight (at the
\* target rate 0.1 that adaptive uses) plus half its importance weight when an
\* auxiliary classifier exists, exactly its stratified weight when none
\* exists, and adaptive never raises the not-fitted error.
C6_AdaptiveIsEqualBlend ==
    (IsWeightsCall /\ call.method = "adaptive")
    => LET s == compute_importance_weights(reweighting_model, rare_event_rate,
                                           call.df, "stratified", Some(<<1, 10>>))
           im == compute_importance_weights(reweighting_model, rare_event_rate,
                                            call.df, "importance", None)
       IN  /\ ret.kind = "weights"
           /\ Len(ret.weights) = Len(call.df)
           /\ reweighting_model.fitted =>
                \A i \in DOMAIN call.df :
                    Add(ret.weights[i], ret.weights[i]) =
                        Add(s.weights[i], im.weights[i])
           /\ ~reweighting_model.fitted => ret.weights = s.weights

C6_Witness ==
    /\ IsWeightsCall
    /\ call.method = "adaptive"
    /\ reweighting_model.fitted
    /\ HasRare(call.df)
    /\ HasCommon(call.df)
    /\ ret.kind = "weights"
    /\ \A i \in DOMAIN ret.weights : IsFinite(ret.weights[i])
    /\ \E i, j \in DOMAIN ret.weights : ret.weights[i] # ret.weights[j]

C6_WitnessFallback ==
    /\ IsWeightsCall
    /\ call.method = "adaptive"
    /\ ~reweighting_model.fitted
    /\ HasRare(call.df)
    /\ ret.kind = "weights"

----------------------------------------------------------------------------
\* Properties of the evaluator (SpecExperiment, SpecEvaluator).

\* row i of the test split is a detected rare event of result row r
Detected(r, i) == df_test[i].y = 1 /\ r.y_pred[i] = 1

\* C7: the MTTD proxy of a result row is 24 hours times the (0-based) index
\* of the first test row whose label and prediction are both positive, and is
\* infinite, never zero or finite, when there is no such row.
C7_MttdIsFirstDetection ==
    \A k \in DOMAIN results :
        LET r == results[k]
        IN  /\ Len(r.y_pred) = Len(df_test)
            /\ (\E i \in DOMAIN df_test : Detected(r, i)) =>
                  \E i \in DOMAIN df_test :
                      /\ Detected(r, i)
                      /\ \A j \in 1..(i - 1) : ~Detected(r, j)
                      /\ r.mttd_hours = <<24 * (i - 1), 1>>
            /\ (\A i \in DOMAIN df_test : ~Detected(r, i)) =>
                  r.mttd_hours = <<1, 0>>

C7_Witness ==
    \E k \in DOMAIN results :
        /\ ~Detected(results[k], 1)
        /\ Len(df_test) >= 2
        /\ Detected(results[k], 2)
        /\ results[k].mttd_hours = <<24, 1>>

C7_WitnessUndetected ==
    \E k \in DOMAIN results :
        /\ \E i \in DOMAIN df_test : df_test[i].y = 1
        /\ \A i \in DOMAIN df_test : ~Detected(results[k], i)
        /\ results[k].mttd_hours = <<1, 0>>

\* C8: when run_experiment returns, its frame has one row per method, in the
\* order uniform, stratified, importance, adaptive, carrying the metrics of
\* evaluate, and in every row mttd_improvement_pct is
\* (baseline_mttd - mttd) / baseline_mttd * 100 and sensitivity_improvement is
\* (sensitivity - baseline_sensitivity) / baseline_sensitivity * 100, the
\* baseline values being those of the uniform row of the same frame.
C8_ImprovementsRelativeToUniform ==
    pc = "done" =>
        /\ Len(experiment) = 4
        /\ Len(results) = 4
        /\ \A k \in 1..4 :
               /\ experiment[k].method =
                      <<"uniform", "stratified", "importance", "adaptive">>[k]
               /\ experiment[k].mttd_hours = results[k].mttd_hours
               /\ experiment[k].sensitivity = results[k].sensitivity
        /\ \A u, k \in 1..4 :
               experiment[u].method = "uniform" =>
                   LET b == experiment[u]
                       r == experiment[k]
                   IN  /\ r.mttd_improvement_pct =
                             Mul(Div(Sub(b.mttd_hours, r.mttd_hours), b.mttd_hours),
                                 <<100, 1>>)
                       /\ r.sensitivity_improvement =
                             Mul(Div(Sub(r.sensitivity, b.sensitivity), b.sensitivity),
                                 <<100, 1>>)

C8_Witness ==
    /\ pc = "done"
    /\ experiment[1].mttd_hours = <<24, 1>>
    /\ experiment[1].sensitivity = <<1, 2>>
    /\ \E k \in 2..4 :
           /\ experiment[k].mttd_hours = <<0, 1>>
           /\ experiment[k].mttd_improvement_pct = <<100, 1>>
           /\ IsFinite(experiment[k].sensitivity_improvement)

\* C9: no step of the evaluation changes the test split or the training
\* split; the detector is fitted on resampled rows of the training split only,
\* and whenever the evaluation fits the auxiliary classifier it fits it on the
\* training split.
C9_TestSetUntouched ==
    [][ /\ df_test' = df_test
        /\ df_train' = df_train
        /\ detector_fit_on' \subseteq Range(df_train)
        /\ (reweighting_model' # reweighting_model \/ aux_fit_on' # aux_fit_on)
              => aux_fit_on' = df_train ]_vars

C9_Witness ==
    /\ pc = "done"
    /\ aux_fit_on = df_train
    /\ detector_fit_on # {}
    /\ \E i \in DOMAIN df_test : df_test[i] \notin Range(df_train)
    /\ Len(results) = 4

----------------------------------------------------------------------------
\* Properties of the fit lifecycle (SpecModels).

\* the operations that need a posterior
NeedsPosterior ==
    {ModelCall("survival", op) :
         op \in {"predict_hazard_rate", "predict_time_to_event",
                 "posterior_predictive_check", "get_diagnostics", "save_results"}}
        \cup {ModelCall("changepoint", op) :
                  op \in {"detect_changepoint", "get_diagnostics", "save_results"}}

\* the posterior of the object a call is made on, before the call
PosteriorOf(c) == IF c.obj = "survival" THEN survival.idata ELSE changepoint.idata

\* C10: an object has a posterior only through a fit that returned, and never
\* loses it.  A prediction, detection or reporting operation on an object
\* without a posterior raises "Model must be fitted first", writes no file and
\* changes neither object; on an object with a posterior it never raises that
\* error.
C10_NotFittedErrors ==
    [][ /\ (survival'.idata # survival.idata)
            => /\ model_call' = ModelCall("survival", "fit")
               /\ model_ret' = ""
               /\ survival'.idata # None
        /\ (changepoint'.idata # changepoint.idata)
            => /\ model_call' = ModelCall("changepoint", "fit")
               /\ model_ret' = ""
               /\ changepoint'.idata # None
        /\ (model_call = NoCall /\ model_call' \in NeedsPosterior)
            => IF PosteriorOf(model_call') = None
               THEN /\ model_ret' = "Model must be fitted first"
                    /\ files' = files
                    /\ survival' = survival
                    /\ changepoint' = changepoint
               ELSE model_ret' # "Model must be fitted first" ]_vars

\* save_results fails on a survival object whose only fit raised while
\* sampling, and a fitted change-point object has written its file
C10_Witness ==
    /\ model_call = ModelCall("survival", "save_results")
    /\ model_ret = "Model must be fitted first"
    /\ survival.model # None
    /\ survival.idata = None
    /\ changepoint.idata # None
    /\ \E p \in Paths : files[p] = CpFile

----------------------------------------------------------------------------
\* Properties of detect_changepoint (SpecDetect).

\* the number of posterior draws of tau
NDraws == Len(posterior_tau)

\* the draws that lie beyond the first 20% of a series of n points
BeyondEarly(n) == {i \in DOMAIN posterior_tau : 5 * posterior_tau[i] > n}

C11_WitnessDetected ==
    /\ detection # None
    /\ detection[1].error = ""
    /\ detection[1].changepoint_probability = <<2, 3>>
    /\ detect_args[1].threshold = <<1, 2>>
    /\ detection[1].changepoint_detected

\* C12: detect_changepoint always returns; the change-point index is the
\* most frequent draw of tau and is an index of the series, and mttd_hours is
\* 24 times the time from the change-point to the end of the series, finite
\* and not negative.
C12_ModeIsValidIndex ==
    detection # None =>
        /\ detection[1].error = ""
        /\ \E m \in 1..(Len(detect_args[1].time) - 1) :
               /\ \A w \in Range(posterior_tau) :
                      Bincount(posterior_tau, m) >= Bincount(posterior_tau, w)
               /\ detection[1].changepoint_time_numeric = detect_args[1].time[m + 1]
               /\ detection[1].mttd_hours =
                      <<24 * (detect_args[1].time[Len(detect_args[1].time)]
                                - detect_args[1].time[m + 1]), 1>>
        /\ detection[1].mttd_hours[2] = 1
        /\ detection[1].mttd_hours[1] >= 0

\* C12 on the series the posterior was sampled for: when every draw of tau is
\* in the support 1..n-1 of the series passed, detect_changepoint returns and
\* mttd_hours is finite and not negative.
C12_HoldsWithinSupport ==
    (detection # None
        /\ \A i \in DOMAIN posterior_tau :
               posterior_tau[i] <= Len(detect_args[1].time) - 1) =>
        /\ detection[1].error = ""
        /\ detection[1].mttd_hours[2] = 1
        /\ detection[1].mttd_hours[1] >= 0

----------------------------------------------------------------------------
\* Properties of prepare_data (SpecPrepare).

IsCpPrepare == prepared # None /\ prep_args[1].model = "changepoint"

IsSrvPrepare == prepared # None /\ prep_args[1].model = "survival"

\* the distinct days of the rows of df with the given indices
DaysOf(df, rows) == {df[i].date_key : i \in rows}

\* the indices of the rows of vehicle v
RowsOfVehicle(df, v) == {i \in DOMAIN df : df[i].vehicle_id = v}

StrictlyIncreasing(x) == \A i \in 1..(Len(x) - 1) : x[i] < x[i + 1]

\* C13: without a vehicle column, prepare_data of the change-point model
\* returns one aggregate series: time, events, exposure and dates of equal
\* length, one entry per distinct time value, in strictly increasing order,
\* events and exposure summed per time value.
C13_AggregateSeries ==
    (IsCpPrepare /\ ~prep_args[1].has_vehicle_col) =>
        LET d == prepared[1]
            df == prep_args[1].df
            days == SortedSeq(DaysOf(df, DOMAIN df))
        IN  /\ d.error = ""
            /\ Len(d.time) = Len(days)
            /\ Len(d.events) = Len(days)
            /\ Len(d.exposure) = Len(days)
            /\ Len(d.dates) = Len(days)
            /\ StrictlyIncreasing(d.time)
            /\ \A k \in DOMAIN days :
                   LET on == {i \in DOMAIN df : df[i].date_key = days[k]}
                   IN  /\ d.events[k] = SumCol(df, "critical_events", on)
                       /\ d.exposure[k] = SumCol(df, "trip_count", on)

\* C14: with the vehicle column, prepare_data of the change-point model
\* returns exactly one series for each vehicle with at least 10 time points
\* and none for the others; time_series and vehicle_ids correspond index by
\* index, and every series is in strictly increasing time order.
C14_OneSeriesPerLongVehicle ==
    (IsCpPrepare /\ prep_args[1].has_vehicle_col) =>
        LET d == prepared[1]
            df == prep_args[1].df
            points(v) == Cardinality(DaysOf(df, RowsOfVehicle(df, v)))
        IN  /\ d.error = ""
            /\ Len(d.time_series) = Len(d.vehicle_ids)
            /\ Range(d.vehicle_ids) = {v \in CpVehicles : points(v) >= 10}
            /\ \A i, j \in DOMAIN d.vehicle_ids :
                   d.vehicle_ids[i] = d.vehicle_ids[j] => i = j
            /\ \A i \in DOMAIN d.time_series :
                   /\ Len(d.time_series[i].time) = points(d.vehicle_ids[i])
                   /\ StrictlyIncreasing(d.time_series[i].time)

\* C15: prepare_data of the survival model raises InsufficientData whenever
\* fewer than 10 complete rows or fewer than 2 distinct vehicles remain after
\* the incomplete rows are dropped.
C15_SurvivalInsufficientData ==
    IsSrvPrepare =>
        LET df == prep_args[1].df
            complete == {i \in DOMAIN df : Complete(df[i])}
            vehicles == {df[i].vehicle_id : i \in complete}
        IN  (Cardinality(complete) < 10 \/ Cardinality(vehicles) < 2)
                => prepared[1].error = "InsufficientData"

\* C16: prepare_data of the change-point model raises InsufficientData when
\* the aggregate series has fewer than 10 points, or when no vehicle reaches
\* 10 points.
C16_ChangepointInsufficientData ==
    IsCpPrepare =>
        LET df == prep_args[1].df
            points(v) == Cardinality(DaysOf(df, RowsOfVehicle(df, v)))
            short == IF prep_args[1].has_vehicle_col
                     THEN \A v \in CpVehicles : points(v) < 10
                     ELSE Cardinality(DaysOf(df, DOMAIN df)) < 10
        IN  short => prepared[1].error = "InsufficientData"

\* C17: prepare_data of the survival model returns; time, event and
\* vehicle_idx have one entry per complete row, in row order; every
\* vehicle_idx lies in 0..n_vehicles-1, every index of that range is used,
\* and vehicle_ids[vehicle_idx[i]] is the vehicle of the i-th complete row.
C17_DenseVehicleIndex ==
    IsSrvPrepare =>
        LET d == prepared[1]
            df == prep_args[1].df
            complete == {i \in DOMAIN df : Complete(df[i])}
            n == Cardinality(complete)
            \* the position in df of the k-th complete row
            pos(k) == CHOOSE i \in complete :
                          Cardinality({j \in complete : j <= i}) = k
        IN  /\ d.error = ""
            /\ Len(d.time) = n
            /\ Len(d.event) = n
            /\ Len(d.vehicle_idx) = n
            /\ Len(d.vehicle_ids) = d.n_vehicles
            /\ \A k \in 1..n : d.vehicle_idx[k] \in 0..(d.n_vehicles - 1)
            /\ {d.vehicle_idx[k] : k \in 1..n} = 0..(d.n_vehicles - 1)
            /\ \A k \in 1..n :
                   /\ d.time[k] = df[pos(k)].time_to_event_hours[1]
                   /\ d.event[k] = df[pos(k)].regression_occurred[1]
                   /\ d.vehicle_ids[d.vehicle_idx[k] + 1] = df[pos(k)].vehicle_id[1]

\* an incomplete row is dropped and the vehicle seen first gets index 0
C17_Witness ==
    /\ IsSrvPrepare
    /\ Len(prep_args[1].df) = 3
    /\ ~Complete(prep_args[1].df[1])
    /\ prepared[1].vehicle_ids = <<2, 1>>
    /\ prepared[1].vehicle_idx = <<0, 1>>

----------------------------------------------------------------------------
\* Properties of the result rows (SpecStore).

\* the rows of all result files
AllRows == UNION {Range(tables[p][1]) : p \in {q \in Paths : tables[q] # None}}

\* the rows written by save_results of the two Bayesian models
ModelRows == {r \in AllRows : "model_run_id" \in DOMAIN r}

\* the run id of a row
IdOf(r) == IF "model_run_id" \in DOMAIN r THEN r.model_run_id ELSE r.experiment_id

\* C18: in every row written by save_results of the survival model and of
\* the change-point model, convergence_flag is true exactly when the rhat_max
\* of the row is below 1.01; a run that has not converged is written, with
\* the flag false.
C18_FlagMatchesRhat ==
    \A r \in ModelRows :
        r.convergence_flag <=>
            (r.rhat_max[2] > 0 /\ 100 * r.rhat_max[1] < 101 * r.rhat_max[2])

\* rows of a run with r_hat exactly 1.01, flagged as not converged
C18_Witness ==
    \E r \in ModelRows :
        /\ r.rhat_max = <<101, 100>>
        /\ ~r.convergence_flag

C18_WitnessConverged ==
    \E r \in ModelRows :
        /\ r.rhat_max = <<1, 1>>
        /\ r.convergence_flag

\* C19: rows produced by two different save_results / run_experiment
\* invocations never carry the same run id.
C19_RunIdsUnique ==
    \A r1, r2 \in AllRows :
        r1.invocation # r2.invocation => IdOf(r1) # IdOf(r2)

\* C20: whatever is done next, every row that a result file holds stays in
\* that file unchanged.
C20_RowsAppendOnly ==
    [][ \A p \in Paths :
            tables[p] # None =>
                /\ tables'[p] # None
                /\ Range(tables[p][1]) \subseteq Range(tables'[p][1]) ]_vars

----------------------------------------------------------------------------
\* Properties of refitting and of saving after a per-vehicle fit (SpecModels).

\* C21: save_results on the grouped data that a change-point object was fitted
\* on with vehicle_idx = k detects on series k of that data, whatever k is, and
\* so never indexes outside the series.
C21_SavesFittedSeries ==
    [][ (/\ model_call = NoCall
         /\ model_call' = ModelCall("changepoint", "save_results")
         /\ changepoint.idata # None
         /\ model_data' = Some(changepoint.idata[1].data)
         /\ changepoint.idata[1].data.grouped)
        => /\ cp_save_vehicle_idx(model_data'[1])
                  = Some(changepoint.idata[1].idx)
           /\ model_ret' # "IndexError" ]_vars

\* C22: a SurvivalModel.fit that returns leaves the object with the model
\* built from the data of that call and with the posterior sampled from it,
\* whatever was built or fitted before.
C22_FitSamplesCallData ==
    [][ (/\ model_call = NoCall
         /\ model_call' = ModelCall("survival", "fit")
         /\ model_ret' = "")
        => /\ survival'.model = model_data'
           /\ survival'.idata = model_data' ]_vars

----------------------------------------------------------------------------
\* Properties of the column selection (SpecColumns).

\* C23: with any feature_cols, evaluate_detection_performance raises nothing
\* while computing weights and hands predict_proba exactly the columns the
\* auxiliary classifier was fitted on, which are the feature_cols in effect.
C23_ClassifierSeesFittedColumns ==
    /\ eval_error = ""
    /\ proba_columns # None
        => /\ proba_columns = model_columns
           /\ proba_columns
                  = Some(EffectiveFeatureCols(train_columns, feature_cols))

\* without feature_cols the classifier is fitted on, and applied to, every
\* column but the label
C23_HoldsWithoutFeatureCols ==
    feature_cols = None => C23_ClassifierSeesFittedColumns

----------------------------------------------------------------------------
\* Properties of the DAG run (SpecPipeline).

\* a task instance that has been started at least once
Started(t) == task_state[t] \in {"running", "up_for_retry", "success", "failed"}

Succeeded(t) == task_state[t] = "success"

\* C24: check_data_quality starts only after ingest_data succeeded, the
\* transform only after the check, a model task only after the transform,
\* generate_alerts only after all three model tasks, publish_results only
\* after generate_alerts; and no model task is upstream of another.
C24_TaskOrder ==
    /\ Started("check_data_quality") => Succeeded("ingest_data")
    /\ Started("transform_staging_to_analytics") => Succeeded("check_data_quality")
    /\ \A m \in ModelTasks :
           Started(m) => Succeeded("transform_staging_to_analytics")
    /\ Started("generate_alerts") => \A m \in ModelTasks : Succeeded(m)
    /\ Started("publish_results") => Succeeded("generate_alerts")
    /\ \A a, b \in ModelTasks : a \notin Upstream(b)

\* the run went through to publish_results, with the change-point task
\* finished on its third try
C24_Witness ==
    /\ Succeeded("publish_results")
    /\ try_number["run_changepoint_model"] = 3

\* the model tasks run in any order: one has finished while another is
\* running and the third has not started
C24_WitnessInterleaved ==
    /\ task_state["run_importance_sampling"] = "success"
    /\ task_state["run_changepoint_model"] = "running"
    /\ task_state["run_survival_model"] = "none"

----------------------------------------------------------------------------
\* Properties of generate_alerts (SpecAlerts).

\* the rows of the result file of a date that report a change-point
DetectedRows(d) ==
    IF cp_csv[d] = None
    THEN <<>>
    ELSE SelectSeq(cp_csv[d][1], LAMBDA r : r.changepoint_detected)

\* C25: once generate_alerts has returned for an execution date, the alerts
\* file of that date holds one alert per detected row of that date's result
\* file, in order, with severity 'critical' exactly when hazard_ratio > 2.0 and
\* 'warning' otherwise, and with pairwise distinct ids; without a result file
\* or a detected row there is no alerts file; and there is none for a date
\* it has not run for.
C25_AlertsMatchDetections ==
    \A d \in ExecutionDates :
        IF d \notin alerts_returned \/ DetectedRows(d) = <<>>
        THEN alerts_csv[d] = None
        ELSE /\ alerts_csv[d] # None
             /\ LET alerts == alerts_csv[d][1]
                    rows == DetectedRows(d)
                IN  /\ Len(alerts) = Len(rows)
                    /\ \A i \in DOMAIN alerts :
                           /\ alerts[i].alert_value = rows[i].hazard_ratio
                           /\ alerts[i].severity \in {"critical", "warning"}
                           /\ alerts[i].severity = "critical"
                                  <=> rows[i].hazard_ratio[1]
                                          > 2 * rows[i].hazard_ratio[2]
                    /\ \A i, j \in DOMAIN alerts :
                           i # j => alerts[i].alert_id # alerts[j].alert_id

\* two alerts for one date, one for a hazard ratio of exactly 2.0 given as a
\* warning and one critical, and a run for a date without a result file
C25_Witness ==
    /\ alerts_returned = ExecutionDates
    /\ \E d \in ExecutionDates :
           /\ alerts_csv[d] # None
           /\ Len(alerts_csv[d][1]) = 2
           /\ alerts_csv[d][1][1].alert_value = <<2, 1>>
           /\ alerts_csv[d][1][1].severity = "warning"
           /\ alerts_csv[d][1][2].severity = "critical"
    /\ \E d \in ExecutionDates : cp_csv[d] = None /\ alerts_csv[d] = None

----------------------------------------------------------------------------
\* Properties of the metrics of an experiment (SpecExperiment).

\* C26: in every result row the four confusion counts add up to the number of
\* test rows, also when the test labels or the predictions are of one class.
C26_CountsCoverTestRows ==
    \A k \in DOMAIN results :
        results[k].tp + results[k].fp + results[k].tn + results[k].fn
            = Len(df_test)

\* with both classes among the test labels and predictions the counts do add
\* up to the number of test rows
C26_HoldsWithTwoClasses ==
    \A k \in DOMAIN results :
        Cardinality({df_test[i].y : i \in DOMAIN df_test}
                        \cup Range(results[k].y_pred)) = 2
            => results[k].tp + results[k].fp + results[k].tn + results[k].fn
                   = Len(df_test)

\* C27: in the frame run_experiment returns, the row of the 'uniform' baseline
\* has sensitivity_improvement 0 and mttd_improvement_pct 0, whatever the
\* baseline sensitivity and MTTD are.
C27_BaselineImprovementZero ==
    pc = "done" =>
        \A k \in DOMAIN experiment :
            experiment[k].method = "uniform"
                => /\ experiment[k].sensitivity_improvement = <<0, 1>>
                   /\ experiment[k].mttd_improvement_pct = <<0, 1>>

\* with a positive baseline sensitivity and a positive finite baseline MTTD
\* both improvements of the baseline row are 0
C27_HoldsForPositiveFiniteBaseline ==
    pc = "done" =>
        \A k \in DOMAIN experiment :
            (/\ experiment[k].method = "uniform"
             /\ experiment[k].sensitivity[1] > 0
             /\ experiment[k].mttd_hours[1] > 0
             /\ experiment[k].mttd_hours[2] > 0)
                => /\ experiment[k].sensitivity_improvement = <<0, 1>>
                   /\ experiment[k].mttd_improvement_pct = <<0, 1>>

----------------------------------------------------------------------------
\* Properties of the rows of one save_results call (SpecStore).

\* the files that hold the rows of a SurvivalModel.save_results call
SrvTables ==
    {p \in Paths : /\ tables[p] # None
                   /\ "model_run_id" \in DOMAIN tables[p][1][1]
                   /\ tables[p][1][1].model_run_id.prefix = "SRV"}

\* C28: the rows one SurvivalModel.save_results call writes are one per vehicle
\* index 0 .. n_vehicles - 1, in order, and all carry the same model_run_id
\* and the same model_run_timestamp, however the clock moves during the call.
C28_OneRunOneStamp ==
    \A p \in SrvTables :
        LET rows == tables[p][1]
        IN  \A i \in DOMAIN rows :
                /\ rows[i].vehicle_id = Some(i - 1)
                /\ rows[i].invocation = rows[1].invocation
                /\ rows[i].model_run_id = rows[1].model_run_id
                /\ rows[i].model_run_timestamp = rows[1].model_run_timestamp

\* the rows of a call are one per vehicle index, whatever their stamps are
C28_HoldsOneRowPerVehicle ==
    \A p \in SrvTables :
        LET rows == tables[p][1]
        IN  \A i \in DOMAIN rows :
                /\ rows[i].vehicle_id = Some(i - 1)
                /\ rows[i].invocation = rows[1].invocation

----------------------------------------------------------------------------
\* Properties of DataLoader.load_directory (SpecLoader).

\* the tables the database has
ExistingTables == {t \in TableNames : db[t] # None}

\* load_directory has returned
Loaded == loader_pc = Len(FileNames) + 1

\* the records of a file of the input directory, none for a missing file
RecordsIn(filename) ==
    IF input_dir[filename] = None
    THEN {}
    ELSE {<<filename, k>> : k \in 1..input_dir[filename][1]}

\* C29: from construction on the database has exactly the tables
\* staging_trips, staging_events and staging_mode_transitions; when
\* load_directory has returned, the records of trips.jsonl are in
\* staging_trips, those of events.jsonl in staging_events and those of
\* transitions.jsonl in staging_mode_transitions, a missing file having
\* contributed nothing and hindered nothing.
C29_RecordsLandInCreatedTables ==
    loader_pc >= 1 =>
        /\ ExistingTables
               = {"staging_trips", "staging_events", "staging_mode_transitions"}
        /\ Loaded =>
               /\ db["staging_trips"][1] = RecordsIn("trips.jsonl")
               /\ db["staging_events"][1] = RecordsIn("events.jsonl")
               /\ db["staging_mode_transitions"][1] = RecordsIn("transitions.jsonl")

\* trips and events do land in their created tables, with or without the
\* other files
C29_HoldsForTripsAndEvents ==
    Loaded =>
        /\ db["staging_trips"][1] = RecordsIn("trips.jsonl")
        /\ db["staging_events"][1] = RecordsIn("events.jsonl")

----------------------------------------------------------------------------
\* Properties of the target rate of the adaptive scheme (SpecSampler).

\* the adaptive weights of the last call are the blend (or, without an
\* auxiliary classifier, the copy) of the stratified weights at target_rate
AdaptiveBlendAt(target_rate) ==
    LET s == compute_importance_weights(reweighting_model, rare_event_rate,
                                        call.df, "stratified", target_rate)
        im == compute_importance_weights(reweighting_model, rare_event_rate,
                                         call.df, "importance", None)
    IN  /\ ret.kind = "weights"
        /\ reweighting_model.fitted =>
              \A i \in DOMAIN call.df :
                  Add(ret.weights[i], ret.weights[i])
                      = Add(s.weights[i], im.weights[i])
        /\ ~reweighting_model.fitted => ret.weights = s.weights

\* C30: the stratified part of the adaptive weights is computed with the
\* target_rate of the call, as method stratified computes it, and with 0.1
\* only when the call gives none.
C30_AdaptiveUsesTargetRate ==
    (IsWeightsCall /\ call.method = "adaptive")
        => AdaptiveBlendAt(call.target_rate)

\* a call without target_rate gets the stratified part at 0.1
C30_HoldsWithoutTargetRate ==
    (IsWeightsCall /\ call.method = "adaptive" /\ call.target_rate = None)
        => AdaptiveBlendAt(call.target_rate)

====
